---- MODULE Spec2Model ----
(***************************************************************************)
(* A model of the VulTra analyzer: the suggestion cache and fix applicator *)
(* of AISuggestionHandler (src/src/providers/codeActionProvider.ts) and    *)
(* the logging detectors (src/unnamed/part_001,                            *)
(* src/src/analyzer/semanticLoggingAnalyzer.ts).                           *)
(*                                                                         *)
(* Text.  A string is modelled by what the code does with it.  A line is a *)
(* sequence of tokens (a token is a maximal piece of text that every       *)
(* regular expression of the program either matches whole or not at all),  *)
(* a text with line breaks is a sequence of lines: code.split('\n') of a   *)
(* text is the sequence itself.  A column is a number of tokens.           *)
(* Descriptions are sequences of UTF-16 code units, since hashString       *)
(* reads them with charCodeAt.                                             *)
(***************************************************************************)
EXTENDS Integers, Sequences, FiniteSets, TLC

\* ---------------------------------------------------------------- bounds
\* Commands the user and the environment issue during one run: calls of
\* generateSuggestions, applySuggestionCommand and clearCache, edits of a document,
\* changes of the active editor.  The steps a command goes on to take are not counted.
MaxCommands == 4
\* The same for the runs of interleaved generateSuggestions calls.
MaxCalls == 3
\* Calls made to the detectors during one run.
MaxDetectorCalls == 4

\* ------------------------------------------------------------ small helpers
Min(a, b) == IF a < b THEN a ELSE b

Max(a, b) == IF a > b THEN a ELSE b

Range(s) == {s[i] : i \in DOMAIN s}

\* ------------------------------------------------------------------ texts
\* Character codes of the descriptions used as inputs.
DescSql == <<83, 81, 76, 32, 105, 110, 106, 101, 99, 116, 105, 111, 110>>

DescHardcoded == <<72, 97, 114, 100, 99, 111, 100, 101, 100>>

DescLogging == <<105, 110, 32, 108, 111, 103, 103, 105, 110, 103>>

DescAa == <<65, 97>>

DescBB == <<66, 66>>

\* 'sql injection', 'hardcoded', 'logging': the needles of generateRuleBasedSuggestion.
NeedleSql == <<115, 113, 108, 32, 105, 110, 106, 101, 99, 116, 105, 111, 110>>

NeedleHardcoded == <<104, 97, 114, 100, 99, 111, 100, 101, 100>>

NeedleLogging == <<108, 111, 103, 103, 105, 110, 103>>

\* String.prototype.toLowerCase on the code units A..Z.
ToLowerCase(s) == [i \in DOMAIN s |-> IF s[i] >= 65 /\ s[i] <= 90 THEN s[i] + 32 ELSE s[i]]

\* String.prototype.includes.
Includes(s, needle) ==
    \E k \in 0..(Len(s) - Len(needle)) :
        \A j \in 1..Len(needle) : s[k + j] = needle[j]

\* --------------------------------------------------- AISuggestionHandler
W16 == 65536

\* One round of hashString's loop on a 32-bit value kept as <<high, low>> 16-bit
\* halves: hash = ((hash << 5) - hash) + char; hash = hash & hash.
HashStep(h, char) ==
    LET lo == h[2] * 31 + char
        hi == h[1] * 31 + (lo \div W16)
    IN  <<hi % W16, lo % W16>>

RECURSIVE HashLoop(_, _, _)
HashLoop(str, i, h) ==
    IF i > Len(str) THEN h ELSE HashLoop(str, i + 1, HashStep(h, str[i]))

\* Math.abs of the signed 32-bit value, as <<high, low>> halves of the result.
AbsInt32(h) ==
    IF h[1] < 32768 THEN h
    ELSE <<(W16 - h[1] - (IF h[2] = 0 THEN 0 ELSE 1)) % W16, (W16 - h[2]) % W16>>

hashString(str) == AbsInt32(HashLoop(str, 1, <<0, 0>>))

\* `${fileName}:${lineNumber}:${hash}`: the three parts, which the string determines
\* (the last two hold no colon).
getSuggestionKey(vulnerability) ==
    <<vulnerability.fileName, vulnerability.lineNumber, hashString(vulnerability.description)>>

\* ------------------------------------------- generateRuleBasedSuggestion
\* Tokens that hold a ')' (always as their last character).
ClosesParen(tok) == tok \in {")", ".getPassword()", ".getData()"}

\* Index of the first token from position `from` on that holds a ')', or 0.
FirstClose(line, from) ==
    IF \E j \in from..Len(line) : ClosesParen(line[j])
    THEN CHOOSE j \in from..Len(line) :
             ClosesParen(line[j]) /\ \A m \in from..(j - 1) : ~ClosesParen(line[m])
    ELSE 0

\* The alternation (info|debug|warn|error) after a lower-case 'log.'.
LogLevelOf(tok) ==
    CASE tok = "log.info(" -> "info"
      [] tok = "log.debug(" -> "debug"
      [] tok = "log.warn(" -> "warn"
      [] tok = "log.error(" -> "error"
      [] OTHER -> ""

\* 'log.$1("Sanitized log message without sensitive data");'
SanitizedLog(level) ==
    <<(CASE level = "info" -> "log.info("
         [] level = "debug" -> "log.debug("
         [] level = "warn" -> "log.warn("
         [] OTHER -> "log.error("),
      "\"Sanitized log message without sensitive data\"", ")", ";">>

\* originalCode.replace(/log\.(info|debug|warn|error)\([^)]*\)/, ...): the first
\* match only; [^)]* ends at the first ')' after the call.
ReplaceLogCall(line) ==
    LET starts == {i \in 1..Len(line) :
                      LogLevelOf(line[i]) # "" /\ FirstClose(line, i + 1) # 0}
    IN  IF starts = {} THEN <<line>>
        ELSE LET i == CHOOSE x \in starts : \A y \in starts : x <= y
                 j == FirstClose(line, i + 1)
             IN  <<SubSeq(line, 1, i - 1) \o SanitizedLog(LogLevelOf(line[i]))
                     \o SubSeq(line, j + 1, Len(line))>>

\* The three lines of the prepared-statement replacement text.
PreparedLine1 ==
    <<"Prepared", "Statement", " pstmt = connection.prepare", "Statement", "(sql", ")", ";">>

PreparedLine2 ==
    <<"// Set parameters using pstmt.setString(", ")", ", pstmt.setInt(", ")", ", etc.">>

PreparedLine3 == <<"ResultSet rs = pstmt.", "executeQuery(", ")", ";">>

\* Whether 'executeQuery\([^)]+\)' matches at token e: a ')' follows, after at
\* least one other character.
QueryMatchesAt(line, e) ==
    /\ line[e] = "executeQuery("
    /\ LET j == FirstClose(line, e + 1)
       IN  j # 0 /\ (j > e + 1 \/ line[j] # ")")

\* originalCode.replace(/Statement.*executeQuery\([^)]+\)/, ...): leftmost
\* 'Statement', then the greedy .* takes the last executeQuery call that matches.
ReplaceStatement(line) ==
    LET starts == {s \in 1..Len(line) :
                      /\ line[s] = "Statement"
                      /\ \E e \in (s + 1)..Len(line) : QueryMatchesAt(line, e)}
    IN  IF starts = {} THEN <<line>>
        ELSE LET s == CHOOSE x \in starts : \A y \in starts : x <= y
                 ends == {e \in (s + 1)..Len(line) : QueryMatchesAt(line, e)}
                 e == CHOOSE x \in ends : \A y \in ends : x >= y
                 j == FirstClose(line, e + 1)
             IN  << SubSeq(line, 1, s - 1) \o PreparedLine1,
                    PreparedLine2,
                    PreparedLine3 \o SubSeq(line, j + 1, Len(line)) >>

\* The generated code, as the lines of the returned string.  originalCode is one
\* line (getCodeContext returns a line or a message).
generateRuleBasedSuggestion(vulnerability, originalCode) ==
    LET d == ToLowerCase(vulnerability.description)
    IN  IF Includes(d, NeedleSql) THEN ReplaceStatement(originalCode)
        ELSE IF Includes(d, NeedleHardcoded)
        THEN << <<"// Use environment variables or configuration files">>,
                <<"String value = System.getenv(", "\"SECURE_VALUE\"", ")", ";">> >>
        ELSE IF Includes(d, NeedleLogging) THEN ReplaceLogCall(originalCode)
        ELSE << <<"// Please review and fix the security issue:">>,
                <<"// ">> \o vulnerability.suggestedFix,
                originalCode >>

\* The fallback Suggestion's code:
\* `// Suggestion unavailable\n// Please manually fix: ${vulnerability.suggestedFix}`.
FallbackCode(vulnerability) ==
    << <<"// Suggestion unavailable">>,
       <<"// Please manually fix: ">> \o vulnerability.suggestedFix >>

\* ------------------------------------------------------ state of the program
VARIABLES
    docs,             \* the text documents: file name -> lines
    activeEditor,     \* vscode.window.activeTextEditor (a file name, or NoEditor)
    suggestionCache,  \* AISuggestionHandler.suggestionCache: id -> Suggestion
    gen,              \* the activations of generateSuggestions, one per caller
    app,              \* the activation of applySuggestionCommand
    allocated,        \* history: Suggestion objects built so far, per id
    shifted,          \* history: cached ids whose line was moved by an edit since they were built
    cleared,          \* history: ids dropped by clearCache and not generated since
    commands,         \* history: commands issued so far
    sourceCode,       \* the source text given to the detectors
    checker,          \* the LoggingSensitivityChecker: lastIndex of its loggerPatterns;
                      \* history: the results of its calls
    analyzer,         \* the SemanticLoggingAnalyzer: isInitialized, the embedding
                      \* backend, lastIndex of its LOGGING_PATTERNS; history: the
                      \* results of its calls
    ruleFile,         \* resources/rules/vulnerability-rules.json in the file system
    engine,           \* the RuleEngine: its rules; history: its loads and calls
    provider,         \* the CodeActionProvider: its issues; history: the results of
                      \* its calls
    ext,              \* the extension: the files on disk, analysisResults, the
                      \* panel's results, the diagnostics, the activations of
                      \* analyzeFile suspended in the scanner, the events of the
                      \* file watcher
    runs              \* the activations of analyzeLoggingStatements that share the
                      \* analyzer

handlerVars == <<docs, activeEditor, suggestionCache, gen, app, allocated, shifted,
                 cleared, commands>>

detectorVars == <<sourceCode, checker, analyzer>>

ruleVars == <<ruleFile, engine>>

extensionVars == <<provider, ext, runs>>

vars == <<docs, activeEditor, suggestionCache, gen, app, allocated, shifted,
          cleared, commands, sourceCode, checker, analyzer, ruleFile, engine,
          provider, ext, runs>>

NoEditor == "<none>"

Callers == {"c1", "c2"}

\* The documents at the start.
InitDocs ==
    [f \in {"A.java", "B.java"} |->
        IF f = "A.java"
        THEN << <<"String key = ", "\"abc123\"", ";">>,
                <<"log.info(", "user", ".getPassword()", ")", ";">> >>
        ELSE << <<"ResultSet rs = c.create", "Statement", "(", ")", ".",
                  "executeQuery(", "q", ")", ";">> >>]

IssueLogging ==
    [fileName |-> "A.java", lineNumber |-> 2, description |-> DescLogging,
     suggestedFix |-> <<"Remove the password from the log">>]

IssueHardcoded ==
    [fileName |-> "A.java", lineNumber |-> 1, description |-> DescHardcoded,
     suggestedFix |-> <<>>]

IssueSql ==
    [fileName |-> "B.java", lineNumber |-> 1, description |-> DescSql,
     suggestedFix |-> <<"Use PreparedStatement">>]

\* The detectors stamp fileName: '', which names no document.
IssueNoFile ==
    [fileName |-> "", lineNumber |-> 1, description |-> DescAa,
     suggestedFix |-> <<"Review">>]

IssueLineZero ==
    [fileName |-> "B.java", lineNumber |-> 0, description |-> DescAa,
     suggestedFix |-> <<"Review">>]

IssueLineBeyond ==
    [fileName |-> "B.java", lineNumber |-> 3, description |-> DescHardcoded,
     suggestedFix |-> <<"Review">>]

\* Two issues of one line whose descriptions differ and have the same hash.
IssueAa ==
    [fileName |-> "A.java", lineNumber |-> 2, description |-> DescAa,
     suggestedFix |-> <<"Review">>]

IssueBB ==
    [fileName |-> "A.java", lineNumber |-> 2, description |-> DescBB,
     suggestedFix |-> <<>>]

\* The issue lists handed to generateSuggestions by the callers of the fix
\* applicator: one issue per kind of generated code and per kind of target.
ApplyLists ==
    { <<IssueLogging>>, <<IssueHardcoded>>, <<IssueSql>>, <<IssueNoFile>>,
      <<IssueLineZero>>, <<IssueLineBeyond>> }

\* The issue lists handed to generateSuggestions calls that share cache keys.
SharedLists ==
    { <<IssueLogging>>, <<IssueLogging, IssueAa>>, <<IssueAa, IssueLogging>>,
      <<IssueBB, IssueLogging>> }

AllIssues == UNION {Range(l) : l \in ApplyLists \cup SharedLists}

PoolKeys == {getSuggestionKey(v) : v \in AllIssues}

\* An activation of generateSuggestions.  pc: idle, await (suspended at
\* `await this.getCodeContext(...)`), done (returned).  hits, failed and stale are
\* history: the positions served from the cache, the positions that took the catch
\* branch, and whether clearCache ran since the call was made.
GenIdle ==
    [pc |-> "idle", vulnerabilities |-> <<>>, i |-> 1, suggestions |-> <<>>,
     originalCode |-> <<>>, hits |-> {}, failed |-> {}, stale |-> FALSE]

\* The activation of applySuggestionCommand.  pc: idle, open (awaiting
\* openTextDocument), show (awaiting showTextDocument), edit (awaiting applyEdit),
\* done.  result: none, notfound, failed, applied (the message shown).  endCol is
\* lineText.text.length.  History: found (the lookup found an entry), wasCleared
\* (the id was in `cleared` at the lookup), scanStale (an edit moved the line
\* after the suggestion was built), changed (the document was edited after the
\* line was read).
AppIdle ==
    [pc |-> "idle", id |-> <<>>, fileName |-> "", lineNumber |-> 0, newCode |-> <<>>,
     endCol |-> 0, result |-> "none",
     found |-> FALSE, wasCleared |-> FALSE, scanStale |-> FALSE, changed |-> FALSE]

\* The numbers of patterns in LoggingSensitivityChecker.loggerPatterns and in
\* SemanticLoggingAnalyzer.LOGGING_PATTERNS.
LoggerPatternCount == 6

LoggingPatternCount == 3

\* The detectors after construction: every lastIndex is 0, no call was made.
NewChecker == [lastIndex |-> [p \in 1..LoggerPatternCount |-> 0], results |-> <<>>]

\* An embedding backend: the similarities it gives (see Similarity) and the texts
\* for which computing the embedding throws.  NoBackend stands for no pipeline.
NoBackend == [similar |-> <<>>, throws |-> {}]

\* The analyzer with initializeModel settled: embeddingPipeline is set exactly when
\* isInitialized is.  trace is history: for each call, the backend state it found
\* and the lines it found to be logging lines.
NewAnalyzer(initialized, backend) ==
    [isInitialized |-> initialized, embeddingPipeline |-> initialized,
     initializing |-> FALSE, backend |-> backend,
     lastIndex |-> [p \in 1..LoggingPatternCount |-> 0], results |-> <<>>,
     trace |-> <<>>]

\* The analyzer when its constructor returns: initializeModel is suspended at
\* `await pipeline(...)`.
ConstructedAnalyzer == [NewAnalyzer(FALSE, NoBackend) EXCEPT !.initializing = TRUE]

\* A JSON text or value that is no RuleSet: kind tells which (the text "garbage"
\* that does not parse; null; the object {} without fields; undefined).
NotRuleSet(kind) == [kind |-> kind, version |-> "", rules |-> <<>>]

\* No file at the rules path, in a directory that can be written.
NoRuleFile ==
    [exists |-> FALSE, readable |-> TRUE, writable |-> TRUE, content |-> NotRuleSet("none")]

\* A RuleEngine whose constructor has not run: `rules` is not assigned.
NewEngine ==
    [loaded |-> FALSE, rules |-> NotRuleSet("undefined"), loads |-> <<>>, results |-> <<>>,
     scan |-> [pc |-> "idle", rule |-> 1, line |-> 1, lastIndex |-> 0, pushed |-> 0]]

\* new CodeActionProvider(): no issues.
NewProvider == [issues |-> <<>>, calls |-> <<>>]

\* The extension when activate() has returned: nothing analysed.
NewExt ==
    [exists |-> {}, analysisResults |-> {}, panel |-> {}, diagnostics |-> {},
     analyzing |-> <<>>, events |-> <<>>]

NoRuns == <<>>

InitExtension == provider = NewProvider /\ ext = NewExt /\ runs = NoRuns

InitHandler ==
    /\ docs = InitDocs
    /\ activeEditor = "A.java"
    /\ suggestionCache = <<>>
    /\ gen = [c \in Callers |-> GenIdle]
    /\ app = AppIdle
    /\ allocated = [k \in PoolKeys |-> 0]
    /\ shifted = {}
    /\ cleared = {}
    /\ commands = 0

Init ==
    /\ InitHandler
    /\ InitExtension
    /\ sourceCode = <<>>
    /\ checker = NewChecker
    /\ ruleFile = NoRuleFile
    /\ engine = NewEngine
    /\ analyzer = NewAnalyzer(FALSE, NoBackend)

\* ------------------------------------------------------ generateSuggestions
\* getCodeContext: the line of the ACTIVE editor's document at the issue's line
\* number, or a message (no editor; no such line; an empty line, which is falsy).
getCodeContext(vulnerability, editor, documents) ==
    IF editor = NoEditor THEN <<"Unable to retrieve code context">>
    ELSE LET lines == documents[editor]
             n == vulnerability.lineNumber
         IN  IF n \in 1..Len(lines) /\ lines[n] # <<>> THEN lines[n]
             ELSE <<"Unable to retrieve vulnerable line">>

\* A lookup that never finds the entry.
CacheHasNever(cache, key) == FALSE

\* suggestionCache.has(suggestionKey)
CacheHas(cache, key) == key \in DOMAIN cache

\* A store that stores nothing.
CacheSetNothing(cache, key, value) == cache

\* suggestionCache.set(key, value)
CacheSet(cache, key, value) ==
    [k \in DOMAIN cache \cup {key} |-> IF k = key THEN value ELSE cache[k]]

\* vulnerability.suggestedFix || <default>
FixOr(vulnerability, default) ==
    IF vulnerability.suggestedFix = <<>> THEN default ELSE vulnerability.suggestedFix

\* The object literal of the try branch.  obj tells the objects built for one id
\* apart: with id it is the object's identity.
NewSuggestion(vulnerability, originalCode, obj) ==
    [id |-> getSuggestionKey(vulnerability),
     issueDescription |-> vulnerability.description,
     suggestedFix |-> FixOr(vulnerability, <<"No specific fix provided">>),
     aiGeneratedCode |-> generateRuleBasedSuggestion(vulnerability, originalCode),
     lineNumber |-> vulnerability.lineNumber,
     fileName |-> vulnerability.fileName,
     originalCode |-> originalCode,
     obj |-> obj]

\* The object literal of the catch branch.
FallbackSuggestion(vulnerability, obj) ==
    [id |-> getSuggestionKey(vulnerability),
     issueDescription |-> vulnerability.description,
     suggestedFix |-> FixOr(vulnerability, <<"Manual review required">>),
     aiGeneratedCode |-> FallbackCode(vulnerability),
     lineNumber |-> vulnerability.lineNumber,
     fileName |-> vulnerability.fileName,
     originalCode |-> <<"Unable to retrieve original code">>,
     obj |-> obj]

\* The for loop from position g.i up to its next suspension: cached issues are
\* pushed and skipped (continue); at the first issue that is not cached
\* getCodeContext runs and the activation suspends at the await; past the last
\* issue the call returns.
RECURSIVE RunLoop(_, _, _, _)
RunLoop(g, cache, editor, documents) ==
    IF g.i > Len(g.vulnerabilities) THEN [g EXCEPT !.pc = "done"]
    ELSE LET vulnerability == g.vulnerabilities[g.i]
             suggestionKey == getSuggestionKey(vulnerability)
         IN  IF CacheHas(cache, suggestionKey)
             THEN RunLoop([g EXCEPT !.suggestions = Append(@, cache[suggestionKey]),
                                    !.hits = @ \cup {g.i},
                                    !.i = @ + 1],
                          cache, editor, documents)
             ELSE [g EXCEPT !.pc = "await",
                            !.originalCode =
                                getCodeContext(vulnerability, editor, documents)]

\* A call of generateSuggestions(vulnerabilities), up to its first suspension.
GenCall(c, lists, budget) ==
    /\ gen[c].pc \in {"idle", "done"}
    /\ commands < budget
    /\ commands' = commands + 1
    /\ \E vulnerabilities \in lists :
          gen' = [gen EXCEPT ![c] =
                     RunLoop([GenIdle EXCEPT !.vulnerabilities = vulnerabilities],
                             suggestionCache, activeEditor, docs)]
    /\ UNCHANGED <<docs, activeEditor, suggestionCache, app, allocated, shifted,
                   cleared>>
    /\ UNCHANGED <<detectorVars, ruleVars, extensionVars>>

\* The activation resumes after the await: the Suggestion is built (try) or the
\* fallback Suggestion (catch, when the body throws), pushed and stored, and the
\* loop runs on to its next suspension.
GenResume(c, faults) ==
    /\ gen[c].pc = "await"
    /\ \E throws \in faults :
          LET g == gen[c]
              vulnerability == g.vulnerabilities[g.i]
              suggestionKey == getSuggestionKey(vulnerability)
              obj == allocated[suggestionKey] + 1
              suggestion ==
                  IF throws THEN FallbackSuggestion(vulnerability, obj)
                  ELSE NewSuggestion(vulnerability, g.originalCode, obj)
              cache == CacheSet(suggestionCache, suggestionKey, suggestion)
          IN  /\ suggestionCache' = cache
              /\ gen' = [gen EXCEPT ![c] =
                            RunLoop([g EXCEPT !.suggestions = Append(@, suggestion),
                                              !.failed = IF throws THEN @ \cup {g.i} ELSE @,
                                              !.i = @ + 1],
                                    cache, activeEditor, docs)]
              /\ allocated' = [allocated EXCEPT ![suggestionKey] = obj]
              /\ shifted' = shifted \ {suggestionKey}
              /\ cleared' = cleared \ {suggestionKey}
    /\ UNCHANGED <<docs, activeEditor, app, commands>>
    /\ UNCHANGED <<detectorVars, ruleVars, extensionVars>>

\* A clear that leaves the entries in place.
ClearedNothing(cache) == cache

\* suggestionCache.clear()
ClearedCache(cache) == <<>>

\* clearCache()
ClearCache(budget) ==
    /\ commands < budget
    /\ commands' = commands + 1
    /\ suggestionCache' = ClearedCache(suggestionCache)
    /\ cleared' = cleared \cup DOMAIN suggestionCache
    /\ shifted' = {}
    /\ gen' = [c \in Callers |-> [gen[c] EXCEPT !.stale = (gen[c].pc # "idle")]]
    /\ UNCHANGED <<docs, activeEditor, app, allocated>>
    /\ UNCHANGED <<detectorVars, ruleVars, extensionVars>>

\* getSuggestion(suggestionId): the entry, or NoSuggestion for undefined.
NoSuggestion == [id |-> <<>>]

getSuggestion(cache, suggestionId) ==
    IF suggestionId \in DOMAIN cache THEN cache[suggestionId] ELSE NoSuggestion

\* ------------------------------------------- applySuggestionCommand, applyCodeChange
\* A lineAt that refuses only the lines before the first.
LineAtThrowsBelowZero(documentLines, line) == line < 0

\* An edit that inserts newCode at the start of the range and removes nothing.
ReplaceRangeInsert(documentLines, ln, startCol, endCol, newCode) ==
    LET line == Max(0, Min(ln, Len(documentLines) - 1))
        old == documentLines[line + 1]
        n == Len(newCode)
        new == [k \in 1..n |-> newCode[k] \o (IF k = n THEN old ELSE <<>>)]
    IN  SubSeq(documentLines, 1, line) \o new
            \o SubSeq(documentLines, line + 2, Len(documentLines))

\* An applyEdit that is made whatever happened to the document.
EditAlwaysSucceeds(changedSinceRead) == TRUE

\* The call with the suggestion's original line in the place of the generated code.
ApplyArgsOriginal(suggestion) ==
    [fileName |-> suggestion.fileName, lineNumber |-> suggestion.lineNumber,
     newCode |-> <<suggestion.originalCode>>]

\* TextDocument.lineAt(line) throws for a line that is not in the document.
LineAtThrows(documentLines, line) == ~(line >= 0 /\ line < Len(documentLines))

\* The edit `replace(uri, range, newCode)` on the document's lines, the range being
\* (ln, startCol)..(ln, endCol) with 0-based ln, the line and the columns clamped to
\* the document as the editor validates a range: the text before startCol stays in front of
\* newCode's first line, the text after endCol follows its last line.
ReplaceRange(documentLines, ln, startCol, endCol, newCode) ==
    LET line == Max(0, Min(ln, Len(documentLines) - 1))
        old == documentLines[line + 1]
        from == Min(startCol, Len(old))
        to == Min(Max(endCol, from), Len(old))
        prefix == SubSeq(old, 1, from)
        suffix == SubSeq(old, to + 1, Len(old))
        n == Len(newCode)
        new == [k \in 1..n |->
                   (IF k = 1 THEN prefix ELSE <<>>) \o newCode[k]
                       \o (IF k = n THEN suffix ELSE <<>>)]
    IN  SubSeq(documentLines, 1, line) \o new
            \o SubSeq(documentLines, line + 2, Len(documentLines))

\* lineText.text.length of document.lineAt(line).
LineLength(documentLines, line) ==
    IF line + 1 \in DOMAIN documentLines THEN Len(documentLines[line + 1]) ELSE 0

\* `success` of workspace.applyEdit: the editor refuses an edit, changing nothing,
\* when the document was changed after the edit was built (its version differs).
EditSucceeds(changedSinceRead) == ~changedSinceRead

\* The arguments applySuggestionCommand passes to applyCodeChange.
ApplyArgs(suggestion) ==
    [fileName |-> suggestion.fileName, lineNumber |-> suggestion.lineNumber,
     newCode |-> suggestion.aiGeneratedCode]

\* applySuggestionCommand(suggestionId) up to its first suspension: the cache is
\* looked up; without an entry the error message is shown and the call returns.
ApplyStart ==
    /\ app.pc \in {"idle", "done"}
    /\ commands < MaxCommands
    /\ commands' = commands + 1
    /\ \E suggestionId \in PoolKeys :
          LET suggestion == getSuggestion(suggestionCache, suggestionId)
          IN  IF suggestion = NoSuggestion
              THEN app' = [AppIdle EXCEPT !.pc = "done", !.id = suggestionId,
                                          !.result = "notfound",
                                          !.wasCleared = (suggestionId \in cleared)]
              ELSE LET args == ApplyArgs(suggestion)
                   IN  app' = [AppIdle EXCEPT
                                  !.pc = "open", !.id = suggestionId,
                                  !.fileName = args.fileName,
                                  !.lineNumber = args.lineNumber,
                                  !.newCode = args.newCode,
                                  !.found = TRUE,
                                  !.wasCleared = (suggestionId \in cleared),
                                  !.scanStale = (suggestionId \in shifted)]
    /\ UNCHANGED <<docs, activeEditor, suggestionCache, gen, allocated, shifted,
                   cleared>>
    /\ UNCHANGED <<detectorVars, ruleVars, extensionVars>>

\* openTextDocument(uri) settles: it rejects for a file that does not exist, and
\* the error reaches the catch of applySuggestionCommand.
ApplyOpened ==
    /\ app.pc = "open"
    /\ app' = IF app.fileName \in DOMAIN docs
              THEN [app EXCEPT !.pc = "show"]
              ELSE [app EXCEPT !.pc = "done", !.result = "failed"]
    /\ UNCHANGED <<docs, activeEditor, suggestionCache, gen, allocated, shifted,
                   cleared, commands>>
    /\ UNCHANGED <<detectorVars, ruleVars, extensionVars>>

\* showTextDocument(document) settles (the document becomes the active editor), the
\* line is read, the range built and applyEdit called.
ApplyShown ==
    /\ app.pc = "show"
    /\ activeEditor' = app.fileName
    /\ LET line == app.lineNumber - 1
       IN  app' = IF LineAtThrows(docs[app.fileName], line)
                  THEN [app EXCEPT !.pc = "done", !.result = "failed"]
                  ELSE [app EXCEPT !.pc = "edit",
                                   !.endCol = LineLength(docs[app.fileName], line),
                                   !.changed = FALSE]
    /\ UNCHANGED <<docs, suggestionCache, gen, allocated, shifted,
                   cleared, commands>>
    /\ UNCHANGED <<detectorVars, ruleVars, extensionVars>>

\* applyEdit(edit) settles: the edit is made, or refused (success false, which
\* applyCodeChange throws as an error).  The refresh that applySuggestionCommand
\* schedules after a success (setTimeout, getSuggestionCommand) is a later call of
\* generateSuggestions: GenCall.
ApplyEdited ==
    /\ app.pc = "edit"
    /\ IF EditSucceeds(app.changed)
       THEN /\ docs' = [docs EXCEPT ![app.fileName] =
                           ReplaceRange(@, app.lineNumber - 1, 0, app.endCol, app.newCode)]
            /\ app' = [app EXCEPT !.pc = "done", !.result = "applied"]
       ELSE /\ app' = [app EXCEPT !.pc = "done", !.result = "failed"]
            /\ UNCHANGED docs
    /\ UNCHANGED <<activeEditor, suggestionCache, gen, allocated, shifted,
                   cleared, commands>>
    /\ UNCHANGED <<detectorVars, ruleVars, extensionVars>>

\* ------------------------------------------------------------ the environment
InsertLine(documentLines, k, line) ==
    SubSeq(documentLines, 1, k - 1) \o <<line>> \o SubSeq(documentLines, k, Len(documentLines))

RemoveLine(documentLines, k) ==
    SubSeq(documentLines, 1, k - 1) \o SubSeq(documentLines, k + 1, Len(documentLines))

\* An external edit: a line inserted before line k, line k removed, or text typed
\* at the end of line k.
EditKinds == {"insert", "remove", "type"}

Edited(documentLines, kind, k) ==
    CASE kind = "insert" -> InsertLine(documentLines, k, <<>>)
      [] kind = "remove" -> RemoveLine(documentLines, k)
      [] OTHER -> [documentLines EXCEPT ![k] = Append(@, " // checked")]

\* Whether the edit makes line number n denote another line than before.
Shifts(kind, k, n) == kind \in {"insert", "remove"} /\ k <= n

\* The user, or another extension, edits a document.
ExternalEdit ==
    /\ commands < MaxCommands
    /\ commands' = commands + 1
    /\ \E f \in DOMAIN docs, kind \in EditKinds : \E k \in 1..(Len(docs[f]) + 1) :
          /\ kind = "insert" \/ k <= Len(docs[f])
          /\ kind = "remove" => Len(docs[f]) > 1
          /\ docs' = [docs EXCEPT ![f] = Edited(@, kind, k)]
          /\ shifted' =
                 shifted \cup {id \in DOMAIN suggestionCache :
                                  /\ suggestionCache[id].fileName = f
                                  /\ Shifts(kind, k, suggestionCache[id].lineNumber)}
          /\ app' = IF app.pc \in {"open", "show", "edit"} /\ app.fileName = f
                    THEN [app EXCEPT !.scanStale = @ \/ Shifts(kind, k, app.lineNumber),
                                     !.changed = @ \/ (app.pc = "edit")]
                    ELSE app
    /\ UNCHANGED <<activeEditor, suggestionCache, gen, allocated, cleared>>
    /\ UNCHANGED <<detectorVars, ruleVars, extensionVars>>

\* ---------------------------------------------------------- specifications
\* One caller of generateSuggestions (each call returns before the next is made),
\* the fix applicator, the cache and the edits of the environment.  The issues are
\* well typed, so that nothing in the try branch throws.
Next ==
    \/ GenCall("c1", ApplyLists, MaxCommands)
    \/ GenResume("c1", {FALSE})
    \/ ClearCache(MaxCommands)
    \/ ApplyStart
    \/ ApplyOpened
    \/ ApplyShown
    \/ ApplyEdited
    \/ ExternalEdit

Spec == Init /\ [][Next]_vars

\* Calls of generateSuggestions by several callers, which interleave at their
\* awaits, with the try branch free to throw.
NextConc ==
    \/ \E c \in Callers : GenCall(c, SharedLists, MaxCalls)
    \/ \E c \in Callers : GenResume(c, BOOLEAN)
    \/ ClearCache(MaxCalls)

SpecConc == Init /\ [][NextConc]_vars

\* A call of generateSuggestions made only when no other is suspended.
SeqGenCall(c, lists, budget) ==
    /\ \A d \in Callers : gen[d].pc # "await"
    /\ GenCall(c, lists, budget)

NextSeq ==
    \/ \E c \in Callers : SeqGenCall(c, SharedLists, MaxCalls)
    \/ \E c \in Callers : GenResume(c, BOOLEAN)
    \/ ClearCache(MaxCalls)

\* generateSuggestions called sequentially by several callers: each call is awaited
\* before the next is made.
SpecSeq == Init /\ [][NextSeq]_vars

\* ------------------------------------------------- the suggestion cache: claims
\* The issues of an activation's list, as keys.
KeyAt(g, j) == getSuggestionKey(g.vulnerabilities[j])

\* Every Suggestion the activation has collected is the object the cache holds
\* under that issue's key.
HoldsCached(g) ==
    \A j \in 1..Len(g.suggestions) :
        /\ KeyAt(g, j) \in DOMAIN suggestionCache
        /\ g.suggestions[j] = suggestionCache[KeyAt(g, j)]

\* No entry of the cache is replaced or removed by the step.
EntriesKept ==
    \A k \in DOMAIN suggestionCache :
        k \in DOMAIN suggestionCache' /\ suggestionCache'[k] = suggestionCache[k]

\* The step serves the positions it finds cached from the cache as it is: it builds
\* no object and writes no entry for them.
HitsOnlyRead ==
    \A c \in Callers : \A j \in gen'[c].hits \ gen[c].hits :
        /\ gen[c].pc # "await" => UNCHANGED <<suggestionCache, allocated>>
        /\ gen'[c].suggestions[j] = suggestionCache'[KeyAt(gen'[c], j)]

\* C2: with the calls of generateSuggestions made one after the other, between two
\* clearCache calls every request for an issue returns the very object the first
\* request for its key created: what a caller holds is what the cache holds, no
\* step but clearCache replaces or removes an entry, and a cache hit only reads.
C2_SameObjectUntilCleared ==
    /\ [](\A c \in Callers : ~gen[c].stale => HoldsCached(gen[c]))
    /\ [][ClearCache(MaxCalls) \/ (EntriesKept /\ HitsOnlyRead)]_vars

\* Both callers have returned, the second served from the cache with the object the
\* first created.
C2_Witness ==
    /\ \A c \in Callers : gen[c].pc = "done" /\ ~gen[c].stale
    /\ gen["c1"].hits = {} /\ gen["c1"].suggestions # <<>>
    /\ gen["c2"].hits # {}
    /\ \E j \in gen["c2"].hits : gen["c2"].suggestions[j] \in Range(gen["c1"].suggestions)

\* C3: concurrent calls of generateSuggestions for one uncached key do not yield
\* divergent objects: every object a caller holds for a key, with no clearCache
\* since, is the one the cache holds for it.
C3_NoDivergentObjects == \A c \in Callers : ~gen[c].stale => HoldsCached(gen[c])

EditSettles == app.pc = "edit" /\ app'.pc = "done"

\* Every document but the target's is as before.
OtherDocsKept ==
    /\ DOMAIN docs' = DOMAIN docs
    /\ \A f \in DOMAIN docs : f # app.fileName => docs'[f] = docs[f]

\* The target line is replaced as a whole: the lines before it stay, the lines of
\* newCode take its place, the lines after it follow.
WholeLineReplaced ==
    LET old == docs[app.fileName]
        n == app.lineNumber
    IN  /\ OtherDocsKept
        /\ docs'[app.fileName] =
               SubSeq(old, 1, n - 1) \o app.newCode \o SubSeq(old, n + 1, Len(old))

\* C5 as stated: after a fix is applied to line n, line n is newText and every
\* other line of the document is, at its line number, as it was.
C5_LineIsNewText ==
    [][EditSettles /\ app'.result = "applied" =>
          LET old == docs[app.fileName]
              new == docs'[app.fileName]
          IN  /\ OtherDocsKept
              /\ Len(new) = Len(old)
              /\ <<new[app.lineNumber]>> = app.newCode
              /\ \A m \in 1..Len(old) : m # app.lineNumber => new[m] = old[m]]_vars

\* C5, amended: a fix applied to line n replaces the whole text of line n by newText
\* and changes no other text: the lines before n stay, the lines of newText take
\* the place of line n, and the lines after n follow unchanged, moved down by the
\* line breaks of newText; with no line break in newText, line n is newText and
\* every other line is as before.
C5_LineReplacedByNewText ==
    [][EditSettles /\ app'.result = "applied" =>
          /\ WholeLineReplaced
          /\ Len(app.newCode) = 1 =>
                /\ Len(docs'[app.fileName]) = Len(docs[app.fileName])
                /\ docs'[app.fileName][app.lineNumber] = app.newCode[1]]_vars

\* A fix of more than one line has been applied to a line that is not the last of
\* its document.
C5_Witness ==
    /\ app.pc = "done" /\ app.result = "applied"
    /\ Len(app.newCode) > 1
    /\ Len(docs[app.fileName]) > app.lineNumber + Len(app.newCode) - 1

\* C6: a fix for a file that does not exist, or for a line outside the document (0,
\* negative, past the last line), is reported as failed by the step that finds it
\* so, and that step leaves every document as it was.
C6_BadTargetFails ==
    [][/\ (app.pc = "open" /\ app'.pc # "open" /\ app.fileName \notin DOMAIN docs) =>
              (app'.pc = "done" /\ app'.result = "failed" /\ docs' = docs)
       /\ (app.pc = "show" /\ app'.pc # "show"
              /\ app.lineNumber \notin 1..Len(docs[app.fileName])) =>
              (app'.pc = "done" /\ app'.result = "failed" /\ docs' = docs)]_vars

\* A fix for a line past the last line of an existing document has failed.
C6_Witness ==
    /\ app.pc = "done" /\ app.result = "failed" /\ ~app.changed
    /\ app.fileName \in DOMAIN docs
    /\ app.lineNumber > Len(docs[app.fileName])

\* C7: when lines were inserted or removed between the scan and the apply call, so
\* that the line number no longer denotes the scanned line, the fix is not applied.
C7_StaleLineNotOverwritten == app.result = "applied" => ~app.scanStale

C9_ClearedUntilRegenerated ==
    /\ \A id \in cleared : getSuggestion(suggestionCache, id) = NoSuggestion
    /\ app.wasCleared => ~app.found /\ app.pc = "done" /\ app.result = "notfound"

\* An id cached before a clearCache has been applied after it, with other ids since
\* generated again.
C9_Witness == app.wasCleared /\ app.pc = "done" /\ suggestionCache # <<>>

\* C10: applySuggestionCommand with an id that has no entry reports failure and
\* edits nothing; with an id that has one it calls the applicator with the entry's
\* fileName, lineNumber and generated code.
C10_ApplyUsesCachedSuggestion ==
    /\ [][ApplyStart =>
            IF app'.id \in DOMAIN suggestionCache
            THEN LET suggestion == suggestionCache[app'.id]
                 IN  /\ app'.pc = "open" /\ app'.found
                     /\ app'.fileName = suggestion.fileName
                     /\ app'.lineNumber = suggestion.lineNumber
                     /\ app'.newCode = suggestion.aiGeneratedCode
            ELSE app'.pc = "done" /\ app'.result = "notfound" /\ docs' = docs]_vars
    /\ [](app.result = "notfound" <=> (app.pc # "idle" /\ ~app.found))

\* The applicator has applied the generated code of a cached Suggestion whose
\* generated code is not its original line.
C10_Witness ==
    /\ app.found /\ app.result = "applied"
    /\ app.id \in DOMAIN suggestionCache
    /\ app.newCode = suggestionCache[app.id].aiGeneratedCode
    /\ app.newCode # <<suggestionCache[app.id].originalCode>>

\* ------------------------------------------------------------ the detectors
\* Tokens of the texts given to the detectors.  A logger call token is
\* "<object>.<method>(": its object in lower case (the patterns have the i flag)
\* and its method.
LoggerObject(tok) ==
    CASE tok \in {"LOGGER.info(", "logger.severe("} -> "logger"
      [] tok \in {"log.debug(", "log.info(", "LOG.warn("} -> "log"
      [] tok = "System.out.println(" -> "system.out"
      [] tok = "System.err.print(" -> "system.err"
      [] OTHER -> ""

LoggerMethod(tok) ==
    CASE tok \in {"LOGGER.info(", "log.info("} -> "info"
      [] tok = "log.debug(" -> "debug"
      [] tok = "LOG.warn(" -> "warn"
      [] tok = "logger.severe(" -> "severe"
      [] tok = "System.out.println(" -> "println"
      [] tok = "System.err.print(" -> "print"
      [] OTHER -> ""

\* LoggingSensitivityChecker.loggerPatterns[p] matches the token.
LoggerPatternMatches(p, tok) ==
    LET levels == {"info", "debug", "warn", "error", "trace"}
    IN  CASE p \in {1, 3} -> LoggerObject(tok) = "logger" /\ LoggerMethod(tok) \in levels
          [] p \in {2, 4} -> LoggerObject(tok) = "log" /\ LoggerMethod(tok) \in levels
          [] p = 5 -> LoggerObject(tok) = "system.out"
          [] OTHER -> LoggerObject(tok) = "system.err"

\* SemanticLoggingAnalyzer.LOGGING_PATTERNS[p] matches the token.
LoggingPatternMatches(p, tok) ==
    LET levels == {"info", "debug", "warn", "error", "trace", "severe", "warning"}
    IN  CASE p = 1 -> LoggerObject(tok) \in {"logger", "log"} /\ LoggerMethod(tok) \in levels
          [] p = 2 -> LoggerObject(tok) = "system.out"
          [] OTHER -> LoggerObject(tok) = "system.err"

PatternMatches(detector, p, tok) ==
    IF detector = "checker" THEN LoggerPatternMatches(p, tok)
    ELSE LoggingPatternMatches(p, tok)

\* RegExp.prototype.test of a pattern with the g flag: the search starts at the
\* pattern's lastIndex; a match leaves lastIndex at its end, a failure at 0.  A
\* token is one position, so that a match of token i starts at i - 1 and ends at i.
RegExpTest(detector, p, line, lastIndex) ==
    LET ends == {i \in 1..Len(line) : i > lastIndex /\ PatternMatches(detector, p, line[i])}
    IN  IF ends = {} THEN [result |-> FALSE, lastIndex |-> 0]
        ELSE [result |-> TRUE, lastIndex |-> CHOOSE i \in ends : \A j \in ends : i <= j]

\* patterns.some(pattern => pattern.test(line)) from pattern p on: the patterns are
\* tested in order up to the first that matches; each test moves its lastIndex.
RECURSIVE SomeTest(_, _, _, _, _)
SomeTest(detector, p, count, line, indexes) ==
    IF p > count THEN [result |-> FALSE, indexes |-> indexes]
    ELSE LET t == RegExpTest(detector, p, line, indexes[p])
             moved == [indexes EXCEPT ![p] = t.lastIndex]
         IN  IF t.result THEN [result |-> TRUE, indexes |-> moved]
             ELSE SomeTest(detector, p + 1, count, line, moved)

\* LoggingSensitivityChecker.sensitiveMethodPatterns: for each pattern the tokens it
\* matches, with its description, severity and category.
sensitiveMethodPatterns ==
    << [matches |-> {".getCustomerData()", ".getUserData()", ".getAccountData()"},
        description |-> "Customer/user data is being logged - potential PII exposure",
        severity |-> "high", category |-> "PII"],
       [matches |-> {".getCustomerInfo()", ".getUserDetails()"},
        description |-> "Customer information is being logged - potential PII exposure",
        severity |-> "high", category |-> "PII"],
       [matches |-> {".getPassword()", ".getToken()", ".getKey()"},
        description |-> "Password/secret data is being logged - security risk",
        severity |-> "high", category |-> "Credentials"],
       [matches |-> {".password", ".token", ".key"},
        description |-> "Sensitive credential field is being logged",
        severity |-> "high", category |-> "Credentials"],
       [matches |-> {".getApiKey()", ".getAPIToken()"},
        description |-> "API key/token is being logged - security risk",
        severity |-> "high", category |-> "API_Credentials"],
       [matches |-> {".apiKey", ".accessToken"},
        description |-> "API credentials are being logged",
        severity |-> "high", category |-> "API_Credentials"],
       [matches |-> {".getSSN()", ".getEmail()"},
        description |-> "Personal identifiable information (PII) is being logged",
        severity |-> "high", category |-> "PII"],
       [matches |-> {".ssn", ".email"},
        description |-> "PII field is being logged",
        severity |-> "medium", category |-> "PII"],
       [matches |-> {".getAccountData()", ".getCardNumber()"},
        description |-> "Financial information is being logged - compliance risk",
        severity |-> "high", category |-> "Financial"],
       [matches |-> {".getSessionId()", ".getAuthInfo()"},
        description |-> "Session/authentication data is being logged",
        severity |-> "medium", category |-> "Session"],
       [matches |-> {".getData()"},
        description |-> "Generic data method is being logged - review for sensitive content",
        severity |-> "low", category |-> "Generic"] >>

\* generateSuggestedFix(category, matchedPattern): the text of the category's case
\* around the match.
generateSuggestedFix(category, matchedPattern) ==
    CASE category = "PII" -> <<"Remove PII logging.", matchedPattern>>
      [] category = "Credentials" -> <<"Never log passwords or secrets.", matchedPattern>>
      [] category = "API_Credentials" -> <<"API keys should never be logged.", matchedPattern>>
      [] category = "Financial" ->
             <<"Financial data logging violates compliance standards.", matchedPattern>>
      [] category = "Session" ->
             <<"Session data can be used for session hijacking.", matchedPattern>>
      [] category = "Generic" -> <<"Review the content", matchedPattern>>
      [] OTHER -> <<"Review and remove sensitive data", matchedPattern>>

\* line.match(pattern) of a pattern with the g flag: all the matches, in the order
\* of the line; it neither reads nor leaves a lastIndex.
RECURSIVE MatchAll(_, _)
MatchAll(line, matches) ==
    IF line = <<>> THEN <<>>
    ELSE (IF Head(line) \in matches THEN <<Head(line)>> ELSE <<>>)
             \o MatchAll(Tail(line), matches)

\* The Issues of one pattern for one line.
PatternIssues(pattern, line, lineNumber) ==
    LET found == MatchAll(line, pattern.matches)
    IN  [k \in 1..Len(found) |->
            [lineNumber |-> lineNumber,
             description |-> <<pattern.description, found[k]>>,
             severity |-> pattern.severity,
             suggestedFix |-> generateSuggestedFix(pattern.category, found[k]),
             fileName |-> "",
             message |-> "Sensitive data is been exposed in log"]]

\* checkSensitivePatterns(line, lineNumber): the patterns in catalog order.
RECURSIVE checkSensitivePatterns(_, _, _)
checkSensitivePatterns(line, lineNumber, p) ==
    IF p > Len(sensitiveMethodPatterns) THEN <<>>
    ELSE PatternIssues(sensitiveMethodPatterns[p], line, lineNumber)
             \o checkSensitivePatterns(line, lineNumber, p + 1)

\* checkLoggingSensitivity(code) from line n on: the Issues, and the lastIndex of
\* the logger patterns when it returns.
RECURSIVE checkLoggingSensitivity(_, _, _)
checkLoggingSensitivity(code, n, indexes) ==
    IF n > Len(code) THEN [issues |-> <<>>, indexes |-> indexes]
    ELSE LET hasLogging == SomeTest("checker", 1, LoggerPatternCount, code[n], indexes)
             rest == checkLoggingSensitivity(code, n + 1, hasLogging.indexes)
         IN  [issues |-> (IF hasLogging.result
                          THEN checkSensitivePatterns(code[n], n, 1) ELSE <<>>)
                             \o rest.issues,
              indexes |-> rest.indexes]

\* ------------------------------------------------ SemanticLoggingAnalyzer
\* SENSITIVE_KEYWORDS, the categories in the order of the object's keys.
Categories == <<"user_data", "authentication", "api_security", "financial", "personal_info">>

SENSITIVE_KEYWORDS(category) ==
    CASE category = "user_data" ->
             <<"user", "customer", "userdetails", "profile", "personal", "individual">>
      [] category = "authentication" ->
             <<"password", "secret", "token", "auth", "credential", "login">>
      [] category = "api_security" ->
             <<"api", "apikey", "bearer", "oauth", "authorization">>
      [] category = "financial" ->
             <<"payment", "card", "account number", "billing", "transaction", "money">>
      [] OTHER ->
             <<"email", "phone", "address", "ssn", "social security", "pii">>

\* Object.values(SENSITIVE_KEYWORDS).flat()
RECURSIVE FlatKeywords(_)
FlatKeywords(c) ==
    IF c > Len(Categories) THEN <<>>
    ELSE SENSITIVE_KEYWORDS(Categories[c]) \o FlatKeywords(c + 1)

\* SIMILARITY_THRESHOLD, in percent.
SIMILARITY_THRESHOLD == 85

\* The words (maximal runs of word characters) of a token, in order; the words of
\* one token are separated by single spaces.
Words(tok) ==
    CASE tok = "\"User password: \"" -> <<"User", "password">>
      [] tok = "\"account number \"" -> <<"account", "number">>
      [] tok = "\"ok\"" -> <<"ok">>
      [] tok = "user" -> <<"user">>
      [] tok = "account" -> <<"account">>
      [] tok = "u" -> <<"u">>
      [] tok = ".getPassword()" -> <<"getPassword">>
      [] tok = ".getAccountData()" -> <<"getAccountData">>
      [] tok = ".getToken()" -> <<"getToken">>
      [] tok = ".token" -> <<"token">>
      [] tok = ".email" -> <<"email">>
      [] tok = "int x = 1" -> <<"int", "x", "1">>
      [] tok = "String s = " -> <<"String", "s">>
      [] LoggerObject(tok) = "logger" -> <<"logger", LoggerMethod(tok)>>
      [] LoggerObject(tok) = "log" -> <<"log", LoggerMethod(tok)>>
      [] LoggerObject(tok) = "system.out" -> <<"System", "out", LoggerMethod(tok)>>
      [] LoggerObject(tok) = "system.err" -> <<"System", "err", LoggerMethod(tok)>>
      [] OTHER -> <<>>

\* A word in lower case.
LowerWord(w) ==
    CASE w = "User" -> "user"
      [] w = "String" -> "string"
      [] w = "System" -> "system"
      [] w = "getPassword" -> "getpassword"
      [] w = "getAccountData" -> "getaccountdata"
      [] w = "getToken" -> "gettoken"
      [] OTHER -> w

\* The words of a keyword.
KeywordWords(keyword) ==
    CASE keyword = "account number" -> <<"account", "number">>
      [] keyword = "social security" -> <<"social", "security">>
      [] OTHER -> <<keyword>>

\* line.match(new RegExp(`\\b${keyword}\\b`, 'gi')): the matches as they are
\* written in the line, in its order.
KeywordMatchesIn(tok, keyword) ==
    LET ws == Words(tok)
        kw == KeywordWords(keyword)
        at == {i \in 1..(Len(ws) - Len(kw) + 1) :
                  \A j \in 1..Len(kw) : LowerWord(ws[i + j - 1]) = kw[j]}
        n == Cardinality(at)
        ith(k) == CHOOSE i \in at : Cardinality({x \in at : x < i}) = k - 1
    IN  [k \in 1..n |-> IF Len(kw) = 1 THEN ws[ith(k)] ELSE keyword]

RECURSIVE KeywordMatches(_, _)
KeywordMatches(line, keyword) ==
    IF line = <<>> THEN <<>>
    ELSE KeywordMatchesIn(Head(line), keyword) \o KeywordMatches(Tail(line), keyword)

\* The Issues of fallbackLineAnalysis for one keyword.
KeywordIssues(line, lineNumber, keyword) ==
    LET found == KeywordMatches(line, keyword)
    IN  [k \in 1..Len(found) |->
            [lineNumber |-> lineNumber,
             description |-> <<"Potential sensitive keyword detected in logging",
                               found[k], "(keyword matching)">>,
             severity |-> "medium",
             suggestedFix |-> <<"Review and remove sensitive keyword", found[k]>>,
             fileName |-> "",
             message |-> "Potential sensitive information detected in logging:"]]

\* fallbackLineAnalysis(line, lineNumber): the keywords in the order of the catalog.
RECURSIVE fallbackLineAnalysis(_, _, _)
fallbackLineAnalysis(line, lineNumber, k) ==
    IF k > Len(FlatKeywords(1)) THEN <<>>
    ELSE KeywordIssues(line, lineNumber, FlatKeywords(1)[k])
             \o fallbackLineAnalysis(line, lineNumber, k + 1)

\* The text of a string literal token between its quotes, "" for other tokens.
StringLiteral(tok) ==
    CASE tok = "\"User password: \"" -> "User password: "
      [] tok = "\"account number \"" -> "account number "
      [] tok = "\"ok\"" -> "ok"
      [] OTHER -> ""

\* The match of /\.\s*get\w+\(\)/ in a token without its leading dot, "" when the
\* token is no such call.
MethodCall(tok) ==
    CASE tok = ".getPassword()" -> "getPassword()"
      [] tok = ".getAccountData()" -> "getAccountData()"
      [] tok = ".getToken()" -> "getToken()"
      [] OTHER -> ""

\* The word contains user, customer, pass, secret, token, key, auth, account or
\* payment, in any case.
NamesSensitive(w) ==
    LowerWord(w) \in {"user", "password", "getpassword", "account", "getaccountdata",
                      "gettoken", "token"}

\* String.prototype.length, as far as the filter of extractLoggedContent reads it.
LongerThanTwo(text) == text \notin {"", "ok", "u", "x", "s", "1"}

RECURSIVE SelectContent(_, _)
SelectContent(texts, kind) ==
    IF texts = <<>> THEN <<>>
    ELSE LET t == Head(texts)
             keep == CASE kind = "variable" -> NamesSensitive(t)
                       [] kind = "filter" -> LongerThanTwo(t)
                       [] OTHER -> t # ""
         IN  (IF keep THEN <<t>> ELSE <<>>) \o SelectContent(Tail(texts), kind)

RECURSIVE LineWords(_)
LineWords(line) == IF line = <<>> THEN <<>> ELSE Words(Head(line)) \o LineWords(Tail(line))

\* extractLoggedContent(line): the string literals, then the get calls, then the
\* words that name something sensitive, those of more than two characters.
extractLoggedContent(line) ==
    LET stringMatches == SelectContent([i \in 1..Len(line) |-> StringLiteral(line[i])], "match")
        methodMatches == SelectContent([i \in 1..Len(line) |-> MethodCall(line[i])], "match")
        variableMatches == SelectContent(LineWords(line), "variable")
    IN  SelectContent(stringMatches \o methodMatches \o variableMatches, "filter")

\* The cosine similarity, in percent, of the embeddings of a text and a keyword: 100
\* for the keyword itself (the embedding model does not tell the cases of a letter
\* apart), for another text what the embedding backend gives.
Similarity(backend, text, keyword) ==
    IF LowerWord(text) = keyword THEN 100
    ELSE IF <<text, keyword>> \in DOMAIN backend.similar
         THEN backend.similar[<<text, keyword>>]
    ELSE 30

\* The loop of findSemanticMatches(text) over the keywords of the catalog from the
\* k-th on: a keyword whose embedding throws is skipped (the inner catch).
RECURSIVE KeywordLoop(_, _, _)
KeywordLoop(backend, text, k) ==
    IF k > Len(FlatKeywords(1)) THEN <<>>
    ELSE LET keyword == FlatKeywords(1)[k]
             category == CHOOSE c \in Range(Categories) :
                             keyword \in Range(SENSITIVE_KEYWORDS(c))
             similarity == Similarity(backend, text, keyword)
         IN  (IF keyword \notin backend.throws /\ similarity >= SIMILARITY_THRESHOLD
              THEN <<[keyword |-> keyword, similarity |-> similarity,
                      matchedText |-> text, category |-> category]>>
              ELSE <<>>)
                 \o KeywordLoop(backend, text, k + 1)

\* findSemanticMatches(text), k being the first keyword: when the embedding of the
\* text throws, the outer catch returns the matches found so far, which are none.
findSemanticMatches(backend, text, k) ==
    IF text \in backend.throws THEN <<>> ELSE KeywordLoop(backend, text, k)

getSeverityByCategory(category) ==
    CASE category \in {"authentication", "api_security"} -> "high"
      [] category \in {"financial", "personal_info"} -> "high"
      [] category = "user_data" -> "medium"
      [] OTHER -> "medium"

\* getSuggestedFix(category, matchedText): the text of the category's case around
\* the match.
getSuggestedFix(category, matchedText) ==
    CASE category = "authentication" -> <<"Remove authentication data", matchedText>>
      [] category = "api_security" -> <<"Remove API security data", matchedText>>
      [] category = "financial" -> <<"Remove financial data", matchedText>>
      [] category = "personal_info" -> <<"Remove personal information", matchedText>>
      [] category = "user_data" -> <<"Review user data", matchedText>>
      [] OTHER -> <<"Review sensitive data", matchedText>>

\* (similarity * 100).toFixed(1)
ToFixed1(percent) ==
    CASE percent = 100 -> "100.0" [] percent = 90 -> "90.0" [] OTHER -> "30.0"

\* The Issues analyzeLoggingLine pushes for the matches of one content.
MatchIssues(matches, lineNumber) ==
    [k \in 1..Len(matches) |->
        [lineNumber |-> lineNumber,
         description |-> <<"Potential sensitive", matches[k].category,
                           "detected in logging", matches[k].matchedText,
                           "similarity", ToFixed1(matches[k].similarity)>>,
         severity |-> getSeverityByCategory(matches[k].category),
         suggestedFix |-> getSuggestedFix(matches[k].category, matches[k].matchedText),
         fileName |-> "",
         message |-> "Potential sensitive information detected in logging:"]]

\* analyzeLoggingLine(line, lineNumber), from the c-th logged content on.
RECURSIVE analyzeLoggingLine(_, _, _, _)
analyzeLoggingLine(backend, line, lineNumber, c) ==
    LET loggedContent == extractLoggedContent(line)
    IN  IF c > Len(loggedContent) THEN <<>>
        ELSE MatchIssues(findSemanticMatches(backend, loggedContent[c], 1), lineNumber)
                 \o analyzeLoggingLine(backend, line, lineNumber, c + 1)

\* fallbackKeywordAnalysis(code) from line n on: the Issues, the lastIndex of the
\* logging patterns when it returns and, as history, the lines found to log.
RECURSIVE fallbackKeywordAnalysis(_, _, _)
fallbackKeywordAnalysis(code, n, indexes) ==
    IF n > Len(code) THEN [issues |-> <<>>, indexes |-> indexes, analysed |-> {}]
    ELSE LET hasLogging == SomeTest("analyzer", 1, LoggingPatternCount, code[n], indexes)
             rest == fallbackKeywordAnalysis(code, n + 1, hasLogging.indexes)
         IN  [issues |-> (IF hasLogging.result
                          THEN fallbackLineAnalysis(code[n], n, 1) ELSE <<>>)
                             \o rest.issues,
              indexes |-> rest.indexes,
              analysed |-> (IF hasLogging.result THEN {n} ELSE {}) \cup rest.analysed]

\* The for loop of analyzeLoggingStatements from line n on.  analyzeLoggingLine
\* does not throw (findSemanticMatches catches what the pipeline throws), so that
\* the catch of the loop body is not entered.
RECURSIVE AnalyzeLines(_, _, _, _)
AnalyzeLines(backend, code, n, indexes) ==
    IF n > Len(code) THEN [issues |-> <<>>, indexes |-> indexes, analysed |-> {}]
    ELSE LET hasLogging == SomeTest("analyzer", 1, LoggingPatternCount, code[n], indexes)
             rest == AnalyzeLines(backend, code, n + 1, hasLogging.indexes)
         IN  [issues |-> (IF hasLogging.result
                          THEN analyzeLoggingLine(backend, code[n], n, 1) ELSE <<>>)
                             \o rest.issues,
              indexes |-> rest.indexes,
              analysed |-> (IF hasLogging.result THEN {n} ELSE {}) \cup rest.analysed]

\* A mutant of the routing: the lines are analysed semantically whatever the state
\* of the backend.
AnalyzeAlwaysSemantic(initialized, backend, code, n, indexes) ==
    AnalyzeLines(backend, code, n, indexes)

\* analyzeLoggingStatements(code), n being the first line; initialized stands for
\* isInitialized && embeddingPipeline.  Without the model it returns
\* fallbackKeywordAnalysis(code) at once.
analyzeLoggingStatements(initialized, backend, code, n, indexes) ==
    IF ~initialized THEN fallbackKeywordAnalysis(code, n, indexes)
    ELSE AnalyzeLines(backend, code, n, indexes)

\* ------------------------------------------------- the detectors: actions
\* The source texts the detectors are given.
LinePassword ==
    <<"LOGGER.info(", "\"User password: \"", " + ", "user", ".getPassword()", ")", ";">>

LineAccount == <<"System.out.println(", "account", ".getAccountData()", ")", ";">>

LineTwoCalls ==
    <<"log.debug(", "\"ok\"", ")", ";", "log.debug(", "u", ".getToken()", ")", ";">>

LineSevere ==
    <<"logger.severe(", "\"account number \"", " + ", "account", ".token", ")", ";">>

LineNoLogging == <<"String s = ", "user", ".getPassword()", ";">>

LineEmail == <<"log.info(", "user", ".email", ")", ";">>

Texts ==
    { <<LinePassword>>,
      <<LineAccount>>,
      <<<<"int x = 1", ";">>, LineAccount, LineAccount>>,
      <<LineTwoCalls, LineNoLogging>>,
      <<LineSevere, LinePassword>>,
      <<LineEmail>> }

\* The embedding backends: the similarities, in percent, of the pairs of a text and
\* another keyword that the backend places above 30.
Backends ==
    { NoBackend,
      [similar |-> [pair \in {<<"getPassword()", "password">>} |-> 90], throws |-> {}] }

\* The detectors are constructed, the analyzer with or without its model, and
\* given one text.
InitDet ==
    /\ InitHandler
    /\ InitExtension
    /\ sourceCode \in Texts
    /\ checker = NewChecker
    /\ ruleFile = NoRuleFile
    /\ engine = NewEngine
    /\ \E initialized \in BOOLEAN, backend \in Backends :
          /\ ~initialized => backend = NoBackend
          /\ analyzer = NewAnalyzer(initialized, backend)

DetectorCalls == Len(checker.results) + Len(analyzer.results)

\* A call of checkLoggingSensitivity(sourceCode).
CheckLoggingSensitivity ==
    /\ DetectorCalls < MaxDetectorCalls
    /\ LET r == checkLoggingSensitivity(sourceCode, 1, checker.lastIndex)
       IN  checker' = [lastIndex |-> r.indexes, results |-> Append(checker.results, r.issues)]
    /\ UNCHANGED <<sourceCode, analyzer>>
    /\ UNCHANGED <<handlerVars, ruleVars, extensionVars>>

\* The state of the embedding backend, as the analyzer's fields tell it.
BackendState(a) ==
    IF a.isInitialized /\ a.embeddingPipeline THEN "Ready"
    ELSE IF a.initializing THEN "Initializing"
    ELSE "Failed"

\* A call of analyzeLoggingStatements(sourceCode), awaited.
AnalyzeLoggingStatements ==
    /\ DetectorCalls < MaxDetectorCalls
    /\ LET r == analyzeLoggingStatements(analyzer.isInitialized /\ analyzer.embeddingPipeline,
                                         analyzer.backend, sourceCode, 1, analyzer.lastIndex)
       IN  analyzer' = [analyzer EXCEPT
                          !.lastIndex = r.indexes,
                          !.results = Append(@, r.issues),
                          !.trace = Append(@, [state |-> BackendState(analyzer),
                                               analysed |-> r.analysed])]
    /\ UNCHANGED <<sourceCode, checker>>
    /\ UNCHANGED <<handlerVars, ruleVars, extensionVars>>

NextDet ==
    \/ CheckLoggingSensitivity
    \/ AnalyzeLoggingStatements

\* Repeated calls of the detectors on one text.
SpecDet == InitDet /\ [][NextDet]_vars

\* C1: every call of a detector on the text returns the Issue list its first call
\* returned.
C1_RepeatedCallsAgree ==
    /\ \A n \in 1..Len(checker.results) : checker.results[n] = checker.results[1]
    /\ \A n \in 1..Len(analyzer.results) : analyzer.results[n] = analyzer.results[1]

\* ------------------------------------------------- the embedding backend
\* The backends a pipeline that loads may be: those of Backends, and ones for which
\* the embedding of some text throws.
ReadyBackends ==
    Backends \cup { [similar |-> <<>>, throws |-> {"password"}],
                    [similar |-> <<>>, throws |-> {"User password: ", "account"}] }

\* The detectors when their constructors have returned.
InitBackend ==
    /\ InitHandler
    /\ InitExtension
    /\ sourceCode \in Texts
    /\ checker = NewChecker
    /\ ruleFile = NoRuleFile
    /\ engine = NewEngine
    /\ analyzer = ConstructedAnalyzer

\* A mutant of the resolution: the flag is set and no pipeline stored.
ResolvedFlagOnly(a, backend) ==
    [a EXCEPT !.initializing = FALSE, !.isInitialized = TRUE]

\* The analyzer when `await pipeline(...)` has resolved: lines 42 and 53 run without
\* an await between them.
Resolved(a, backend) ==
    [a EXCEPT !.initializing = FALSE,
              !.embeddingPipeline = TRUE,
              !.backend = backend,
              !.isInitialized = TRUE]

\* `await pipeline(...)` of initializeModel resolves: the pipeline is stored and
\* isInitialized set.
PipelineResolves ==
    /\ analyzer.initializing
    /\ \E backend \in ReadyBackends : analyzer' = Resolved(analyzer, backend)
    /\ UNCHANGED <<sourceCode, checker>>
    /\ UNCHANGED <<handlerVars, ruleVars, extensionVars>>

\* `await pipeline(...)` of initializeModel rejects: the catch clears isInitialized.
PipelineRejects ==
    /\ analyzer.initializing
    /\ analyzer' = [analyzer EXCEPT !.initializing = FALSE, !.isInitialized = FALSE]
    /\ UNCHANGED <<sourceCode, checker>>
    /\ UNCHANGED <<handlerVars, ruleVars, extensionVars>>

NextBackend ==
    \/ PipelineResolves
    \/ PipelineRejects
    \/ AnalyzeLoggingStatements

\* The analyzer from its construction on: the model loads or fails to, while
\* analyzeLoggingStatements is called.
SpecBackend == InitBackend /\ [][NextBackend]_vars

IssuesOfLine(issues, l) == SelectSeq(issues, LAMBDA issue : issue.lineNumber = l)

\* The embedding throws while the line is analysed: for one of its logged contents,
\* or for a keyword a logged content is compared with.
EmbeddingThrows(backend, line) ==
    /\ extractLoggedContent(line) # <<>>
    /\ \/ \E c \in 1..Len(extractLoggedContent(line)) :
             extractLoggedContent(line)[c] \in backend.throws
       \/ \E k \in 1..Len(FlatKeywords(1)) : FlatKeywords(1)[k] \in backend.throws

\* C12: in a call that found the backend Ready, a logging line during whose
\* analysis the embedding threw has exactly the Issues of fallbackLineAnalysis.
C12_ThrowingLineFallsBack ==
    \A n \in 1..Len(analyzer.trace) :
       analyzer.trace[n].state = "Ready" =>
          \A l \in analyzer.trace[n].analysed :
             EmbeddingThrows(analyzer.backend, sourceCode[l]) =>
                IssuesOfLine(analyzer.results[n], l) = fallbackLineAnalysis(sourceCode[l], l, 1)

\* The Issue was raised for a logged content taken from a token of the line in
\* which the keyword occurs as whole words.
ReportsOccurrence(issue, line, keyword) ==
    \E t \in 1..Len(line) :
       /\ KeywordMatchesIn(line[t], keyword) # <<>>
       /\ issue.description[4] \in
             {StringLiteral(line[t]), MethodCall(line[t])} \cup Range(Words(line[t]))

\* C13: in a call that found the backend Ready and no embedding throwing, every
\* keyword for which fallbackLineAnalysis reports the line has a semantic Issue on
\* that line, raised for a content in which the keyword occurs.
C13_SemanticSupersetOfKeyword ==
    \A n \in 1..Len(analyzer.trace) :
       (analyzer.trace[n].state = "Ready" /\ analyzer.backend.throws = {}) =>
          \A l \in analyzer.trace[n].analysed : \A k \in 1..Len(FlatKeywords(1)) :
             KeywordIssues(sourceCode[l], l, FlatKeywords(1)[k]) # <<>> =>
                \E i \in 1..Len(IssuesOfLine(analyzer.results[n], l)) :
                   ReportsOccurrence(IssuesOfLine(analyzer.results[n], l)[i],
                                     sourceCode[l], FlatKeywords(1)[k])

\* C14: whatever the state of the backend when the call was made, an analysed line
\* LOGGER.info("User password: " + user.getPassword()); has an Issue of severity
\* high whose description names the password or the authentication category.
C14_PasswordLineIsHigh ==
    \A n \in 1..Len(analyzer.trace) : \A l \in analyzer.trace[n].analysed :
       sourceCode[l] = LinePassword =>
          \E i \in 1..Len(IssuesOfLine(analyzer.results[n], l)) :
             LET issue == IssuesOfLine(analyzer.results[n], l)[i]
             IN  /\ issue.severity = "high"
                 /\ Range(issue.description) \cap
                       {"password", "User password: ", "getPassword()", "authentication"} # {}

\* The line, taken alone, matches one of the logger patterns.
HasLoggingCall(line) ==
    SomeTest("checker", 1, LoggerPatternCount, line, NewChecker.lastIndex).result

\* C15: already in the first call on a new checker, the Issues of each line are
\* those of the catalog patterns when the line has a logging call and none
\* otherwise, whatever the other lines are.
C15_LineIssuesIffLoggingCall ==
    Len(checker.results) >= 1 =>
       \A l \in 1..Len(sourceCode) :
          IssuesOfLine(checker.results[1], l) =
             IF HasLoggingCall(sourceCode[l])
             THEN checkSensitivePatterns(sourceCode[l], l, 1) ELSE <<>>

\* ------------------------------------------------------------- RuleEngine
\* The loads of the rule file and the calls on one engine that are followed.
MaxLoads == 2

MaxRuleCalls == 2

\* The pattern of the naming-convention rule, in pieces: a backslash and a double
\* quote are pieces of their own, the characters between them make one piece.
\* static\s+final\s+\w+\s+([a-z][A-Za-z0-9_]*)
NamingPattern ==
    <<"static", "\\", "s+final", "\\", "s+", "\\", "w+", "\\",
      "s+([a-z][A-Za-z0-9_]*)">>

\* The pattern of the hardcoded-sensitive-info rule, in pieces:
\* (?:api[_-]?key|apikey|secret|password|pwd|token)\s*=\s*["']([^"']{8,})["']
HardcodedPattern ==
    <<"(?:api[_-]?key|apikey|secret|password|pwd|token)", "\\", "s*=", "\\", "s*[",
      "\"", "']([^", "\"", "']{8,})[", "\"", "']">>

\* A pattern that is no regular expression: (
InvalidPattern == <<"(">>

\* A pattern that matches the empty string: a*
EmptyMatchPattern == <<"a*">>

\* getDefaultRules(): the second rule has no pattern field.
getDefaultRules ==
    [kind |-> "ruleset",
     version |-> "1.0.0",
     rules |->
        << [id |-> "naming-convention",
            name |-> "Constant Naming Convention",
            description |-> "Static final variables should be in UPPER_CASE_WITH_UNDERSCORES",
            severity |-> "medium",
            pattern |-> NamingPattern,
            enabled |-> TRUE],
           [id |-> "excessive-nesting",
            name |-> "Excessive Nesting",
            description |-> "Control structures should not be nested more than 4 levels deep",
            severity |-> "high",
            enabled |-> TRUE],
           [id |-> "hardcoded-sensitive-info",
            name |-> "Hardcoded Sensitive Information",
            description |-> "API keys, passwords, and secrets should not be hardcoded",
            severity |-> "critical",
            pattern |-> HardcodedPattern,
            enabled |-> TRUE] >>]

\* A mutant of the serialization: the string is written between the quotes as it is.
EscapeNothing(units) == units

\* JSON.stringify of the characters of a string: a double quote and a backslash
\* are written behind a backslash.
RECURSIVE Escape(_)
Escape(units) ==
    IF units = <<>> THEN <<>>
    ELSE (IF Head(units) \in {"\"", "\\"} THEN <<"\\", Head(units)>> ELSE <<Head(units)>>)
             \o Escape(Tail(units))

\* JSON.parse of the characters between the quotes of a string literal: a bare
\* double quote ends the literal early and a backslash before anything but a double
\* quote or a backslash is no escape, both syntax errors (no piece here starts with
\* one of / b f n r t u).
RECURSIVE Unescape(_)
Unescape(text) ==
    IF text = <<>> THEN [ok |-> TRUE, units |-> <<>>]
    ELSE IF Head(text) = "\"" THEN [ok |-> FALSE, units |-> <<>>]
    ELSE IF Head(text) = "\\"
         THEN IF Len(text) >= 2 /\ text[2] \in {"\"", "\\"}
              THEN LET rest == Unescape(SubSeq(text, 3, Len(text)))
                   IN  [ok |-> rest.ok, units |-> <<text[2]>> \o rest.units]
              ELSE [ok |-> FALSE, units |-> <<>>]
    ELSE LET rest == Unescape(Tail(text))
         IN  [ok |-> rest.ok, units |-> <<Head(text)>> \o rest.units]

\* JSON.stringify of a rule: the fields the object has, each as a JSON literal.
StringifyRule(rule) ==
    [k \in DOMAIN rule |->
        CASE k = "enabled" -> IF rule[k] THEN "true" ELSE "false"
          [] k = "pattern" -> <<"\"">> \o Escape(rule[k]) \o <<"\"">>
          [] OTHER -> <<"\"", rule[k], "\"">>]

\* JSON.stringify(ruleSet, null, 2), as the text of a rule file.
JsonStringify(value) ==
    [kind |-> "ruleset",
     version |-> <<"\"", value.version, "\"">>,
     rules |-> [i \in 1..Len(value.rules) |-> StringifyRule(value.rules[i])]]

\* JSON.parse of the text of one rule.
ParseRule(text) ==
    LET literal == IF "pattern" \in DOMAIN text THEN text.pattern ELSE <<"\"", "\"">>
        closed == Len(literal) >= 2 /\ literal[1] = "\"" /\ literal[Len(literal)] = "\""
        pattern == IF closed THEN Unescape(SubSeq(literal, 2, Len(literal) - 1))
                   ELSE [ok |-> FALSE, units |-> <<>>]
    IN  [ok |-> pattern.ok,
         value |-> [k \in DOMAIN text |->
                       CASE k = "enabled" -> text[k] = "true"
                         [] k = "pattern" -> pattern.units
                         [] OTHER -> text[k][2]]]

\* JSON.parse(rulesContent): a syntax error, or the value the text denotes, which
\* is a RuleSet only when the text is one.
JsonParse(text) ==
    IF text.kind = "garbage" THEN [threw |-> TRUE, value |-> NotRuleSet("undefined")]
    ELSE IF text.kind # "ruleset" THEN [threw |-> FALSE, value |-> text]
    ELSE IF \E i \in 1..Len(text.rules) : ~ParseRule(text.rules[i]).ok
         THEN [threw |-> TRUE, value |-> NotRuleSet("undefined")]
    ELSE [threw |-> FALSE,
          value |-> [kind |-> "ruleset",
                     version |-> text.version[2],
                     rules |-> [i \in 1..Len(text.rules) |-> ParseRule(text.rules[i]).value]]]

\* createDefaultRules(rulesPath): the file as it is afterwards; where nothing can be
\* written, writeFileSync throws and the file is as before.
createDefaultRules(file) ==
    IF file.writable
    THEN [file EXCEPT !.exists = TRUE, !.content = JsonStringify(getDefaultRules)]
    ELSE file

\* loadRules(): the file afterwards, the rules assigned, and whether they came from
\* the file or from the catch.
loadRules(file) ==
    LET created == IF file.exists THEN file ELSE createDefaultRules(file)
        parsed == JsonParse(created.content)
    IN  IF ~created.exists \/ ~created.readable \/ parsed.threw
        THEN [file |-> created, rules |-> getDefaultRules, source |-> "catch"]
        ELSE [file |-> created, rules |-> parsed.value, source |-> "file"]

\* new RegExp(rule.pattern, 'gi'): which expression the pattern compiles to, or
\* that it does not compile.
RegExpOf(pattern) ==
    CASE pattern = NamingPattern -> "naming"
      [] pattern = HardcodedPattern -> "hardcoded"
      [] pattern = InvalidPattern -> "invalid"
      [] pattern = EmptyMatchPattern -> "star"
      [] OTHER -> "never"

\* The expression matches the tokens of the line from the i-th on.  With the i flag
\* [a-z] takes a letter of either case; the quoted value has 8 characters or more.
MatchAt(regex, line, i) ==
    CASE regex = "naming" ->
             /\ i + 1 <= Len(line)
             /\ line[i] = "static final int "
             /\ line[i + 1] \in {"maxRetries", "MAX_RETRIES", "a1", "b2"}
      [] regex = "hardcoded" ->
             /\ i + 2 <= Len(line)
             /\ line[i] \in {"password", "pwd", "apiKey"}
             /\ line[i + 1] = " = "
             /\ line[i + 2] \in {"\"hunter2secret\""}
      [] OTHER -> FALSE

\* regex.exec(line) of an expression with the g flag: the first match from
\* lastIndex on and the lastIndex it leaves, the end of the match; without a match
\* lastIndex is set to 0.  a* matches at lastIndex itself, the tokens "a" that
\* follow or the empty string, and then leaves lastIndex where it was.
Exec(regex, line, lastIndex) ==
    IF regex = "star"
    THEN LET run == {k \in 0..(Len(line) - lastIndex) :
                        \A j \in 1..k : line[lastIndex + j] = "a"}
             n == CHOOSE k \in run : \A j \in run : j <= k
         IN  [found |-> TRUE, match |-> SubSeq(line, lastIndex + 1, lastIndex + n),
              lastIndex |-> lastIndex + n]
    ELSE LET starts == {i \in (lastIndex + 1)..Len(line) : MatchAt(regex, line, i)}
         IN  IF starts = {} THEN [found |-> FALSE, match |-> <<>>, lastIndex |-> 0]
             ELSE LET i == CHOOSE s \in starts : \A t \in starts : s <= t
                      end == i + (IF regex = "naming" THEN 1 ELSE 2)
                  IN  [found |-> TRUE, match |-> SubSeq(line, i, end), lastIndex |-> end]

\* while ((match = regex.exec(line)) !== null): the matches from lastIndex on, for
\* an expression that does not match the empty string.
RECURSIVE ExecLoop(_, _, _)
ExecLoop(regex, line, lastIndex) ==
    LET m == Exec(regex, line, lastIndex)
    IN  IF ~m.found THEN <<>> ELSE <<m.match>> \o ExecLoop(regex, line, m.lastIndex)

\* lines.forEach of applyRules for one rule, from line n on: match is match[0].
RECURSIVE LineFindings(_, _, _)
LineFindings(rule, code, n) ==
    IF n > Len(code) THEN <<>>
    ELSE LET found == ExecLoop(RegExpOf(rule.pattern), code[n], 0)
         IN  [k \in 1..Len(found) |->
                 [ruleId |-> rule.id, line |-> n, description |-> rule.description,
                  severity |-> rule.severity, match |-> found[k]]]
                 \o LineFindings(rule, code, n + 1)

\* rule.enabled && rule.pattern
HasPattern(rule) == rule.enabled /\ "pattern" \in DOMAIN rule /\ rule.pattern # <<>>

\* A mutant of the loop: the rules after rule r are not applied.
RulesLoopFirstOnly(rules, code, r) ==
    IF r > Len(rules) \/ ~HasPattern(rules[r]) \/ RegExpOf(rules[r].pattern) = "invalid"
    THEN [threw |-> FALSE, issues |-> <<>>]
    ELSE [threw |-> FALSE, issues |-> LineFindings(rules[r], code, 1)]

\* rules.forEach of applyRules from rule r on: new RegExp throws for a pattern that
\* does not compile, which ends the call.
RECURSIVE RulesLoop(_, _, _)
RulesLoop(rules, code, r) ==
    IF r > Len(rules) THEN [threw |-> FALSE, issues |-> <<>>]
    ELSE IF HasPattern(rules[r]) /\ RegExpOf(rules[r].pattern) = "invalid"
         THEN [threw |-> TRUE, issues |-> <<>>]
    ELSE LET rest == RulesLoop(rules, code, r + 1)
         IN  [threw |-> rest.threw,
              issues |-> IF rest.threw THEN <<>>
                         ELSE (IF HasPattern(rules[r]) THEN LineFindings(rules[r], code, 1)
                               ELSE <<>>) \o rest.issues]

\* applyRules(code): this.rules.rules.forEach throws a TypeError when this.rules is
\* no RuleSet.
applyRules(value, code) ==
    IF value.kind # "ruleset" THEN [threw |-> TRUE, issues |-> <<>>]
    ELSE RulesLoop(value.rules, code, 1)

\* getRule(ruleId): the rule found, as a sequence of one, or none.
getRule(value, ruleId) ==
    IF value.kind # "ruleset" THEN [threw |-> TRUE, issues |-> <<>>]
    ELSE LET found == SelectSeq(value.rules, LAMBDA rule : rule.id = ruleId)
         IN  [threw |-> FALSE, issues |-> IF found = <<>> THEN <<>> ELSE <<Head(found)>>]

\* ------------------------------------------------- the RuleEngine: actions
LineConstant == <<"static final int ", "maxRetries", " = 3;">>

LineUpperConstant == <<"static final int ", "MAX_RETRIES", " = 3;">>

LineSecret == <<"password", " = ", "\"hunter2secret\"", ";">>

LineTwoConstants ==
    <<"static final int ", "a1", " = 1; ", "static final int ", "b2", " = 2;">>

LineShortSecret == <<"pwd", " = ", "\"abc\"", ";">>

RuleTexts ==
    { <<LineConstant>>,
      <<LineSecret, LineTwoConstants>>,
      <<LineTwoConstants, LineShortSecret>>,
      <<LineUpperConstant, LineSecret>>,
      <<LineShortSecret>> }

\* Rule sets a user has written: one whose first rule has a pattern that does not
\* compile, and one with a disabled rule and a rule whose pattern is empty.
CustomRules ==
    { [getDefaultRules EXCEPT
          !.version = "1.1.0",
          !.rules = <<[@[1] EXCEPT !.id = "broken", !.pattern = InvalidPattern], @[1], @[3]>>],
      [getDefaultRules EXCEPT
          !.version = "1.2.0",
          !.rules = <<[@[1] EXCEPT !.enabled = FALSE],
                      [@[2] EXCEPT !.id = "empty-pattern"] @@ [pattern |-> <<>>],
                      @[3]>>] }

\* What may be at the rules path when an engine is constructed.
RuleFiles ==
    { NoRuleFile, [NoRuleFile EXCEPT !.writable = FALSE] }
       \cup { [exists |-> TRUE, readable |-> FALSE, writable |-> TRUE,
               content |-> JsonStringify(getDefaultRules)] }
       \cup { [exists |-> TRUE, readable |-> TRUE, writable |-> TRUE, content |-> text] :
                 text \in {NotRuleSet("garbage"), NotRuleSet("null"), NotRuleSet("empty")}
                            \cup {JsonStringify(set) : set \in CustomRules \cup {getDefaultRules}} }

InitRules ==
    /\ InitHandler
    /\ InitExtension
    /\ sourceCode \in RuleTexts
    /\ checker = NewChecker
    /\ analyzer = NewAnalyzer(FALSE, NoBackend)
    /\ ruleFile \in RuleFiles
    /\ engine = NewEngine

\* new RuleEngine(): the constructor runs loadRules().
LoadRules ==
    /\ Len(engine.loads) < MaxLoads
    /\ LET r == loadRules(ruleFile)
       IN  /\ ruleFile' = r.file
           /\ engine' = [loaded |-> TRUE, rules |-> r.rules,
                         loads |-> Append(engine.loads,
                                          [existed |-> ruleFile.exists, source |-> r.source]),
                         results |-> <<>>, scan |-> NewEngine.scan]
    /\ UNCHANGED <<handlerVars, detectorVars, extensionVars>>

\* A call of applyRules(sourceCode).
ApplyRules ==
    /\ engine.loaded
    /\ Len(engine.results) < MaxRuleCalls
    /\ engine' = [engine EXCEPT !.results =
                     Append(@, [op |-> "applyRules", ruleId |-> "",
                                out |-> applyRules(engine.rules, sourceCode)])]
    /\ UNCHANGED <<handlerVars, detectorVars, ruleFile, extensionVars>>

\* A call of getRule(ruleId).
GetRule ==
    /\ engine.loaded
    /\ Len(engine.results) < MaxRuleCalls
    /\ \E ruleId \in {"naming-convention", "no-such-rule"} :
          engine' = [engine EXCEPT !.results =
                        Append(@, [op |-> "getRule", ruleId |-> ruleId,
                                   out |-> getRule(engine.rules, ruleId)])]
    /\ UNCHANGED <<handlerVars, detectorVars, ruleFile, extensionVars>>

NextRules ==
    \/ LoadRules
    \/ ApplyRules
    \/ GetRule

\* Engines are constructed on what is at the rules path, and called.
SpecRules == InitRules /\ [][NextRules]_vars

\* The calls of applyRules on the engine that returned, as their findings.
Returned ==
    {n \in 1..Len(engine.results) :
        engine.results[n].op = "applyRules" /\ ~engine.results[n].out.threw}

\* The rules with which findings are made, as indexes into the rule set.
ActiveRules == {r \in 1..Len(engine.rules.rules) : HasPattern(engine.rules.rules[r])}

\* The places of line n at which the pattern of rule r matches.
MatchPlaces(r, n) ==
    {i \in 1..Len(sourceCode[n]) :
        MatchAt(RegExpOf(engine.rules.rules[r].pattern), sourceCode[n], i)}

\* The findings of a result that rule r made on line n.
FindingsOf(issues, r, n) ==
    SelectSeq(issues, LAMBDA f : f.ruleId = engine.rules.rules[r].id /\ f.line = n)

\* Each active rule has on each line one finding per match, made in the order of
\* the matches, and no finding is of another rule.
OnePerMatch(issues) ==
    /\ \A k \in 1..Len(issues) :
          \E r \in ActiveRules : issues[k].ruleId = engine.rules.rules[r].id
    /\ \A r \in ActiveRules : \A n \in 1..Len(sourceCode) :
          LET found == FindingsOf(issues, r, n)
          IN  /\ Len(found) = Cardinality(MatchPlaces(r, n))
              /\ \A k \in 1..Len(found) :
                    \E i \in MatchPlaces(r, n) :
                       /\ Cardinality({j \in MatchPlaces(r, n) : j < i}) = k - 1
                       /\ found[k].match[1] = sourceCode[n][i]
                       /\ found[k].severity = engine.rules.rules[r].severity

RuleIndex(ruleId) ==
    CHOOSE r \in 1..Len(engine.rules.rules) : engine.rules.rules[r].id = ruleId

\* C16 as stated: the findings of a call that returned are one per match of each
\* active rule on each line, listed by line first and by rule within a line.
C16_SourceThenRuleOrder ==
    \A c \in Returned :
       LET issues == engine.results[c].out.issues
       IN  /\ OnePerMatch(issues)
           /\ \A j, k \in 1..Len(issues) :
                 j < k =>
                    \/ issues[j].line < issues[k].line
                    \/ /\ issues[j].line = issues[k].line
                       /\ RuleIndex(issues[j].ruleId) <= RuleIndex(issues[k].ruleId)

\* C16 amended: the findings of a call that returned are one per match of each
\* active rule on each line, listed by rule first and by line within a rule.
C16_RuleThenSourceOrder ==
    \A c \in Returned :
       LET issues == engine.results[c].out.issues
       IN  /\ OnePerMatch(issues)
           /\ \A j, k \in 1..Len(issues) :
                 j < k =>
                    \/ RuleIndex(issues[j].ruleId) < RuleIndex(issues[k].ruleId)
                    \/ /\ issues[j].ruleId = issues[k].ruleId
                       /\ issues[j].line <= issues[k].line

\* A call returned two findings of one rule on one line, after a finding of an
\* earlier rule on a later line.
C16_Witness ==
    \E c \in Returned :
       LET issues == engine.results[c].out.issues
       IN  \E i, j, k \in 1..Len(issues) :
              /\ i < j /\ j < k
              /\ issues[i].ruleId # issues[k].ruleId
              /\ issues[i].line > issues[k].line
              /\ issues[i].ruleId = issues[j].ruleId /\ issues[i].line = issues[j].line

\* The rules whose pattern compiles, or that have none.
RECURSIVE ValidRules(_)
ValidRules(rules) ==
    IF rules = <<>> THEN <<>>
    ELSE (IF HasPattern(Head(rules)) /\ RegExpOf(Head(rules).pattern) = "invalid"
          THEN <<>> ELSE <<Head(rules)>>) \o ValidRules(Tail(rules))

\* C17: on an engine that holds a RuleSet, applyRules returns, and what it returns
\* are the findings of the rules left when those with a pattern that is no regular
\* expression are taken out.
C17_InvalidPatternSkipped ==
    \A n \in 1..Len(engine.results) :
       (engine.results[n].op = "applyRules" /\ engine.rules.kind = "ruleset") =>
          /\ ~engine.results[n].out.threw
          /\ engine.results[n].out.issues =
                RulesLoop(ValidRules(engine.rules.rules), sourceCode, 1).issues

\* C18: with the naming-convention rule of the defaults active, applyRules on the
\* one line `static final int maxRetries = 3;` returns one finding of that rule,
\* and its match is the captured name maxRetries.
C18_MatchIsCapturedName ==
    \A c \in Returned :
       (/\ sourceCode = <<LineConstant>>
        /\ \E r \in ActiveRules : engine.rules.rules[r] = getDefaultRules.rules[1]) =>
          LET found == SelectSeq(engine.results[c].out.issues,
                                 LAMBDA f : f.ruleId = "naming-convention")
          IN  /\ Len(found) = 1
              /\ found[1].severity = "medium"
              /\ found[1].match = <<"maxRetries">>

\* C19: an engine whose constructor has returned holds a RuleSet, the defaults
\* unless the rule file held a RuleSet that was read, and its getRule and
\* applyRules calls do not throw a TypeError.
C19_LoadEndsWithRuleSet ==
    engine.loaded =>
       /\ engine.rules.kind = "ruleset"
       /\ engine.loads[Len(engine.loads)].source = "catch" => engine.rules = getDefaultRules
       /\ \A n \in 1..Len(engine.results) :
             engine.results[n].op = "getRule" => ~engine.results[n].out.threw

\* The load made in this step read the rules from the file, and they are the
\* defaults.
ReadBackDefaults ==
    /\ engine'.loads[Len(engine'.loads)].source = "file"
    /\ engine'.rules = getDefaultRules

\* C20: a load that finds no rule file, where one can be written, leaves a file
\* with the serialized defaults and has read the defaults back from it; a load
\* that finds a readable file with that content reads the defaults back; a load
\* that finds a file leaves it as it is.
C20_DefaultsPersistedOnce ==
    [][LoadRules =>
          /\ (~ruleFile.exists /\ ruleFile.writable) =>
                /\ ruleFile'.exists
                /\ ruleFile'.content = JsonStringify(getDefaultRules)
                /\ ReadBackDefaults
          /\ (/\ ruleFile.exists /\ ruleFile.readable
              /\ ruleFile.content = JsonStringify(getDefaultRules)) => ReadBackDefaults
          /\ ruleFile.exists => ruleFile' = ruleFile]_vars

\* A first load found no file and a second load read the defaults from the file the
\* first had written.
C20_Witness ==
    /\ Len(engine.loads) = 2
    /\ engine.loads[1] = [existed |-> FALSE, source |-> "file"]
    /\ engine.loads[2] = [existed |-> TRUE, source |-> "file"]
    /\ engine.rules = getDefaultRules
    /\ ruleFile.content = JsonStringify(getDefaultRules)

\* C23: the initialization the constructor started is the only one (no step
\* starts one), Ready and Failed are not left, and in every state the flag
\* isInitialized is set only when the pipeline is there.
C23_BackendStateMachine ==
    /\ [](analyzer.isInitialized => analyzer.embeddingPipeline)
    /\ [][/\ analyzer'.initializing => analyzer.initializing
          /\ BackendState(analyzer) \in {"Ready", "Failed"} =>
                BackendState(analyzer') = BackendState(analyzer)]_vars

\* The backend is Ready, and calls were served both while it was Initializing and
\* since it is Ready.
C23_Witness ==
    /\ BackendState(analyzer) = "Ready"
    /\ \E m, n \in 1..Len(analyzer.trace) :
          /\ m < n
          /\ analyzer.trace[m].state = "Initializing"
          /\ analyzer.trace[n].state = "Ready"

\* --------------------------------------- applyRules, one exec at a time
\* The findings of one call that are counted; beyond, "that many or more".
MaxFindings == 3

LineAs == <<"a", "a", ";">>

\* A rule set a user has written, with a rule whose pattern matches the empty
\* string before the hardcoded-sensitive-info rule.
StarRules ==
    [getDefaultRules EXCEPT
        !.version = "1.3.0",
        !.rules = <<[@[1] EXCEPT !.id = "star", !.pattern = EmptyMatchPattern], @[3]>>]

\* An engine constructed on a rule file that holds one of the rule sets.
InitScan ==
    /\ InitHandler
    /\ InitExtension
    /\ sourceCode \in RuleTexts \cup {<<LineAs>>, <<LineShortSecret, LineSecret>>}
    /\ checker = NewChecker
    /\ analyzer = NewAnalyzer(FALSE, NoBackend)
    /\ \E set \in CustomRules \cup {getDefaultRules, StarRules} :
          /\ ruleFile = [exists |-> TRUE, readable |-> TRUE, writable |-> TRUE,
                         content |-> JsonStringify(set)]
          /\ engine = [NewEngine EXCEPT
                          !.loaded = TRUE,
                          !.rules = loadRules(ruleFile).rules,
                          !.loads = <<[existed |-> TRUE, source |-> loadRules(ruleFile).source]>>]

\* The first rule from r on that is enabled and has a pattern, or none: the place
\* at which rules.forEach goes on.  new RegExp throws there for a pattern that does
\* not compile.
ScanFrom(rules, r) ==
    LET active == {q \in r..Len(rules) : HasPattern(rules[q])}
    IN  IF active = {}
        THEN [pc |-> "done", rule |-> Len(rules) + 1, line |-> 1, lastIndex |-> 0]
        ELSE LET q == CHOOSE a \in active : \A b \in active : a <= b
             IN  [pc |-> IF RegExpOf(rules[q].pattern) = "invalid" THEN "threw" ELSE "exec",
                  rule |-> q, line |-> 1, lastIndex |-> 0]

\* applyRules(sourceCode) is called and runs up to its first regex.exec.
StartScan ==
    /\ engine.loaded /\ engine.rules.kind = "ruleset"
    /\ engine.scan.pc = "idle"
    /\ engine' = [engine EXCEPT !.scan = ScanFrom(engine.rules.rules, 1) @@ [pushed |-> 0]]
    /\ UNCHANGED <<handlerVars, detectorVars, ruleFile, extensionVars>>

\* One turn of `while ((match = regex.exec(line)) !== null)`: a match is pushed and
\* the loop goes on from the lastIndex that exec left; without a match the next
\* line is taken, after the last line the next rule.
ExecStep ==
    /\ engine.scan.pc = "exec"
    /\ LET scan == engine.scan
           rules == engine.rules.rules
           m == Exec(RegExpOf(rules[scan.rule].pattern), sourceCode[scan.line], scan.lastIndex)
       IN  engine' = [engine EXCEPT !.scan =
              IF m.found
              THEN [scan EXCEPT !.lastIndex = m.lastIndex,
                                !.pushed = Min(scan.pushed + 1, MaxFindings)]
              ELSE IF scan.line < Len(sourceCode)
                   THEN [scan EXCEPT !.line = scan.line + 1, !.lastIndex = 0]
              ELSE ScanFrom(rules, scan.rule + 1) @@ [pushed |-> scan.pushed]]
    /\ UNCHANGED <<handlerVars, detectorVars, ruleFile, extensionVars>>

NextScan ==
    \/ StartScan
    \/ ExecStep

\* A call of applyRules runs without interruption: its next step is always taken.
SpecScan == InitScan /\ [][NextScan]_vars /\ WF_vars(NextScan)

\* C21: a call of applyRules comes to its end, by returning or by an exception.
C21_ApplyRulesTerminates == <>(engine.scan.pc \in {"done", "threw"})

\* C28: a call of applyRules that returned has no finding of the naming-convention
\* rule on a line `static final int MAX_RETRIES = 3;`.
C28_UpperCaseNotReported ==
    \A c \in Returned : \A k \in 1..Len(engine.results[c].out.issues) :
       LET f == engine.results[c].out.issues[k]
       IN  f.ruleId = "naming-convention" => sourceCode[f.line] # LineUpperConstant

\* C25: every Suggestion an activation of generateSuggestions has collected, built
\* or served from the cache, has the description, line number and file name of the
\* issue at its position.
C25_SuggestionDescribesIssue ==
    \A c \in Callers : \A j \in 1..Len(gen[c].suggestions) :
       /\ gen[c].suggestions[j].issueDescription = gen[c].vulnerabilities[j].description
       /\ gen[c].suggestions[j].lineNumber = gen[c].vulnerabilities[j].lineNumber
       /\ gen[c].suggestions[j].fileName = gen[c].vulnerabilities[j].fileName

\* C29: when an activation of generateSuggestions suspends at getCodeContext for an
\* issue whose file has the issue's line, the original code it has read is that
\* line of that file.
C29_OriginalCodeFromIssueFile ==
    [][\A c \in Callers :
          LET g == gen'[c]
              vulnerability == g.vulnerabilities[g.i]
          IN  (/\ g.pc = "await"
               /\ gen[c].pc # "await" \/ gen[c].i # g.i
               /\ vulnerability.fileName \in DOMAIN docs
               /\ vulnerability.lineNumber \in 1..Len(docs[vulnerability.fileName])) =>
                 g.originalCode = docs[vulnerability.fileName][vulnerability.lineNumber]]_vars

\* The target document is one to which the fix has been applied at the target line:
\* the lines of newCode stand there.
AlreadyApplied ==
    LET old == docs[app.fileName]
        n == app.lineNumber
        k == Len(app.newCode)
    IN  /\ n >= 1 /\ n + k - 1 <= Len(old)
        /\ SubSeq(old, n, n + k - 1) = app.newCode

\* C26: applying a suggestion to a document to which it has been applied leaves
\* every document as it is.
C26_SecondApplyChangesNothing ==
    [][(EditSettles /\ app'.result = "applied" /\ AlreadyApplied) => docs' = docs]_vars

\* The code units of the texts that make up the descriptions of the detectors'
\* Issues: the descriptions of sensitiveMethodPatterns, the fixed texts of the
\* semantic analyzer's descriptions, the categories and the matched texts.
CharCodesTable ==
    "Customer/user data is being logged - potential PII exposure" :>
        <<67, 117, 115, 116, 111, 109, 101, 114, 47, 117, 115, 101, 114, 32, 100, 97, 116,
        97, 32, 105, 115, 32, 98, 101, 105, 110, 103, 32, 108, 111, 103, 103, 101, 100, 32,
        45, 32, 112, 111, 116, 101, 110, 116, 105, 97, 108, 32, 80, 73, 73, 32, 101, 120,
        112, 111, 115, 117, 114, 101>>
    @@
    "Customer information is being logged - potential PII exposure" :>
        <<67, 117, 115, 116, 111, 109, 101, 114, 32, 105, 110, 102, 111, 114, 109, 97, 116,
        105, 111, 110, 32, 105, 115, 32, 98, 101, 105, 110, 103, 32, 108, 111, 103, 103,
        101, 100, 32, 45, 32, 112, 111, 116, 101, 110, 116, 105, 97, 108, 32, 80, 73, 73,
        32, 101, 120, 112, 111, 115, 117, 114, 101>>
    @@
    "Password/secret data is being logged - security risk" :>
        <<80, 97, 115, 115, 119, 111, 114, 100, 47, 115, 101, 99, 114, 101, 116, 32, 100,
        97, 116, 97, 32, 105, 115, 32, 98, 101, 105, 110, 103, 32, 108, 111, 103, 103, 101,
        100, 32, 45, 32, 115, 101, 99, 117, 114, 105, 116, 121, 32, 114, 105, 115, 107>>
    @@
    "Sensitive credential field is being logged" :>
        <<83, 101, 110, 115, 105, 116, 105, 118, 101, 32, 99, 114, 101, 100, 101, 110, 116,
        105, 97, 108, 32, 102, 105, 101, 108, 100, 32, 105, 115, 32, 98, 101, 105, 110, 103,
        32, 108, 111, 103, 103, 101, 100>>
    @@
    "API key/token is being logged - security risk" :>
        <<65, 80, 73, 32, 107, 101, 121, 47, 116, 111, 107, 101, 110, 32, 105, 115, 32, 98,
        101, 105, 110, 103, 32, 108, 111, 103, 103, 101, 100, 32, 45, 32, 115, 101, 99, 117,
        114, 105, 116, 121, 32, 114, 105, 115, 107>>
    @@
    "API credentials are being logged" :>
        <<65, 80, 73, 32, 99, 114, 101, 100, 101, 110, 116, 105, 97, 108, 115, 32, 97, 114,
        101, 32, 98, 101, 105, 110, 103, 32, 108, 111, 103, 103, 101, 100>>
    @@
    "Personal identifiable information (PII) is being logged" :>
        <<80, 101, 114, 115, 111, 110, 97, 108, 32, 105, 100, 101, 110, 116, 105, 102, 105,
        97, 98, 108, 101, 32, 105, 110, 102, 111, 114, 109, 97, 116, 105, 111, 110, 32, 40,
        80, 73, 73, 41, 32, 105, 115, 32, 98, 101, 105, 110, 103, 32, 108, 111, 103, 103,
        101, 100>>
    @@
    "PII field is being logged" :>
        <<80, 73, 73, 32, 102, 105, 101, 108, 100, 32, 105, 115, 32, 98, 101, 105, 110, 103,
        32, 108, 111, 103, 103, 101, 100>>
    @@
    "Financial information is being logged - compliance risk" :>
        <<70, 105, 110, 97, 110, 99, 105, 97, 108, 32, 105, 110, 102, 111, 114, 109, 97,
        116, 105, 111, 110, 32, 105, 115, 32, 98, 101, 105, 110, 103, 32, 108, 111, 103,
        103, 101, 100, 32, 45, 32, 99, 111, 109, 112, 108, 105, 97, 110, 99, 101, 32, 114,
        105, 115, 107>>
    @@
    "Session/authentication data is being logged" :>
        <<83, 101, 115, 115, 105, 111, 110, 47, 97, 117, 116, 104, 101, 110, 116, 105, 99,
        97, 116, 105, 111, 110, 32, 100, 97, 116, 97, 32, 105, 115, 32, 98, 101, 105, 110,
        103, 32, 108, 111, 103, 103, 101, 100>>
    @@
    "Generic data method is being logged - review for sensitive content" :>
        <<71, 101, 110, 101, 114, 105, 99, 32, 100, 97, 116, 97, 32, 109, 101, 116, 104,
        111, 100, 32, 105, 115, 32, 98, 101, 105, 110, 103, 32, 108, 111, 103, 103, 101,
        100, 32, 45, 32, 114, 101, 118, 105, 101, 119, 32, 102, 111, 114, 32, 115, 101, 110,
        115, 105, 116, 105, 118, 101, 32, 99, 111, 110, 116, 101, 110, 116>>
    @@
    "(keyword matching)" :>
        <<40, 107, 101, 121, 119, 111, 114, 100, 32, 109, 97, 116, 99, 104, 105, 110, 103,
        41>>
    @@
    ".email" :>
        <<46, 101, 109, 97, 105, 108>>
    @@
    ".getAccountData()" :>
        <<46, 103, 101, 116, 65, 99, 99, 111, 117, 110, 116, 68, 97, 116, 97, 40, 41>>
    @@
    ".getPassword()" :>
        <<46, 103, 101, 116, 80, 97, 115, 115, 119, 111, 114, 100, 40, 41>>
    @@
    ".getToken()" :>
        <<46, 103, 101, 116, 84, 111, 107, 101, 110, 40, 41>>
    @@
    "100.0" :>
        <<49, 48, 48, 46, 48>>
    @@
    "90.0" :>
        <<57, 48, 46, 48>>
    @@
    "30.0" :>
        <<51, 48, 46, 48>>
    @@
    "Potential sensitive keyword detected in logging" :>
        <<80, 111, 116, 101, 110, 116, 105, 97, 108, 32, 115, 101, 110, 115, 105, 116, 105,
        118, 101, 32, 107, 101, 121, 119, 111, 114, 100, 32, 100, 101, 116, 101, 99, 116,
        101, 100, 32, 105, 110, 32, 108, 111, 103, 103, 105, 110, 103>>
    @@
    "Potential sensitive" :>
        <<80, 111, 116, 101, 110, 116, 105, 97, 108, 32, 115, 101, 110, 115, 105, 116, 105,
        118, 101>>
    @@
    "detected in logging" :>
        <<100, 101, 116, 101, 99, 116, 101, 100, 32, 105, 110, 32, 108, 111, 103, 103, 105,
        110, 103>>
    @@
    "similarity" :>
        <<115, 105, 109, 105, 108, 97, 114, 105, 116, 121>>
    @@
    "User" :>
        <<85, 115, 101, 114>>
    @@
    "account number" :>
        <<97, 99, 99, 111, 117, 110, 116, 32, 110, 117, 109, 98, 101, 114>>
    @@
    "email" :>
        <<101, 109, 97, 105, 108>>
    @@
    "getPassword()" :>
        <<103, 101, 116, 80, 97, 115, 115, 119, 111, 114, 100, 40, 41>>
    @@
    "password" :>
        <<112, 97, 115, 115, 119, 111, 114, 100>>
    @@
    "token" :>
        <<116, 111, 107, 101, 110>>
    @@
    "user" :>
        <<117, 115, 101, 114>>
    @@
    "user_data" :>
        <<117, 115, 101, 114, 95, 100, 97, 116, 97>>
    @@
    "authentication" :>
        <<97, 117, 116, 104, 101, 110, 116, 105, 99, 97, 116, 105, 111, 110>>
    @@
    "api_security" :>
        <<97, 112, 105, 95, 115, 101, 99, 117, 114, 105, 116, 121>>
    @@
    "financial" :>
        <<102, 105, 110, 97, 110, 99, 105, 97, 108>>
    @@
    "personal_info" :>
        <<112, 101, 114, 115, 111, 110, 97, 108, 95, 105, 110, 102, 111>>

CharCodes(text) == IF text \in DOMAIN CharCodesTable THEN CharCodesTable[text] ELSE <<>>

\* The code units of a description given by its parts; a space stands for the
\* punctuation the template literal puts between two parts.
RECURSIVE DescriptionText(_)
DescriptionText(parts) ==
    IF parts = <<>> THEN <<>>
    ELSE IF Len(parts) = 1 THEN CharCodes(parts[1])
    ELSE CharCodes(parts[1]) \o <<32>> \o DescriptionText(Tail(parts))

\* An Issue of a detector as the VulnerabilityIssue handed to generateSuggestions.
AsVulnerability(issue) ==
    [fileName |-> issue.fileName, lineNumber |-> issue.lineNumber,
     description |-> DescriptionText(issue.description),
     suggestedFix |-> issue.suggestedFix]

\* The Issues the Sensitive-Logging Detector and the semantic detector have
\* returned for sourceCode.
DetectorIssues ==
    UNION {Range(checker.results[i]) : i \in 1..Len(checker.results)}
        \cup UNION {Range(analyzer.results[i]) : i \in 1..Len(analyzer.results)}

\* C27: the code generated for an Issue of the Sensitive-Logging Detector or of the
\* semantic detector is the redaction rewrite of the issue's line.
C27_LoggingIssuesGetRedaction ==
    \A issue \in DetectorIssues :
        generateRuleBasedSuggestion(AsVulnerability(issue), sourceCode[issue.lineNumber])
            = ReplaceLogCall(sourceCode[issue.lineNumber])

\* ------------------------------------------------------ CodeActionProvider
\* The code units a..z, A..Z and those of \w.
IsLower(ch) == ch >= 97 /\ ch <= 122

IsUpper(ch) == ch >= 65 /\ ch <= 90

IsWordChar(ch) == IsLower(ch) \/ IsUpper(ch) \/ (ch >= 48 /\ ch <= 57) \/ ch = 95

\* String.prototype.toUpperCase on the code units a..z.
ToUpperCase(s) == [i \in DOMAIN s |-> IF IsLower(s[i]) THEN s[i] - 32 ELSE s[i]]

\* s.replace(/([a-z])([A-Z])/g, '$1_$2'): an underscore between a lower-case letter
\* and the upper-case letter after it; the search goes on after the pair.
RECURSIVE ReplaceBoundaries(_)
ReplaceBoundaries(s) ==
    IF Len(s) < 2 THEN s
    ELSE IF IsLower(s[1]) /\ IsUpper(s[2])
         THEN <<s[1], 95, s[2]>> \o ReplaceBoundaries(SubSeq(s, 3, Len(s)))
    ELSE <<s[1]>> \o ReplaceBoundaries(Tail(s))

\* "Constant '", the fixed text of /Constant '(\w+)'/, and 'Constant'.
ConstantQuote == <<67, 111, 110, 115, 116, 97, 110, 116, 32, 39>>

NeedleConstant == <<67, 111, 110, 115, 116, 97, 110, 116>>

NeedleNesting == <<110, 101, 115, 116, 105, 110, 103>>

NeedleSqlInjection == <<83, 81, 76, 32, 105, 110, 106, 101, 99, 116, 105, 111, 110>>

NeedleXss == <<88, 83, 83>>

\* The end of the match of /Constant '(\w+)'/ that starts at k + 1: the place of the
\* closing quote, or 0.
ConstantMatchEnd(d, k) ==
    LET q == Len(ConstantQuote)
        ends == {e \in (k + q + 2)..Len(d) :
                    /\ d[e] = 39
                    /\ \A j \in (k + q + 1)..(e - 1) : IsWordChar(d[j])}
    IN  IF k + q <= Len(d) /\ SubSeq(d, k + 1, k + q) = ConstantQuote /\ ends # {}
        THEN CHOOSE e \in ends : TRUE
        ELSE 0

\* issue.description.match(/Constant '(\w+)'/): match[1] of the leftmost match, or
\* the empty sequence for null.
MatchConstantName(d) ==
    LET starts == {k \in 0..Len(d) : ConstantMatchEnd(d, k) # 0}
    IN  IF starts = {} THEN <<>>
        ELSE LET k == CHOOSE x \in starts : \A y \in starts : x <= y
             IN  SubSeq(d, k + Len(ConstantQuote) + 1, ConstantMatchEnd(d, k) - 1)

\* generateConstantNamingFix(issue)
generateConstantNamingFix(issue) ==
    LET constantName == MatchConstantName(issue.description)
        fixedName == ReplaceBoundaries(ToUpperCase(constantName))
    IN  IF constantName # <<>>
        THEN [text |-> "Rename", from |-> constantName, to |-> fixedName]
        ELSE [text |-> "Convert to UPPER_CASE_WITH_UNDERSCORES format",
              from |-> <<>>, to |-> <<>>]

FixText(text) == [text |-> text, from |-> <<>>, to |-> <<>>]

\* generateFix(issue); String.prototype.includes tells the cases of a letter apart.
generateFix(issue) ==
    IF Includes(issue.description, NeedleConstant) THEN generateConstantNamingFix(issue)
    ELSE IF Includes(issue.description, NeedleNesting)
         THEN FixText("Consider refactoring this code block:")
    ELSE IF Includes(issue.description, NeedleHardcoded)
         THEN FixText("Move sensitive data to:")
    ELSE IF Includes(issue.description, NeedleSqlInjection)
         THEN FixText("Fix SQL injection vulnerability:")
    ELSE IF Includes(issue.description, NeedleXss) THEN FixText("Fix XSS vulnerability:")
    ELSE IF issue.suggestedFix # <<>> THEN FixText(issue.suggestedFix)
    ELSE FixText("Manual review required")

\* getAllCodeActions(): the fix of the code action of each issue.
getAllCodeActions(issues) == [k \in DOMAIN issues |-> generateFix(issues[k])]

\* applyConstantNamingFix(sourceCode, issue).  The source is a sequence of tokens,
\* the maximal runs of word characters and what stands between them, so that
\* \bname\b matches the tokens that are the name.
applyConstantNamingFix(source, issue) ==
    LET oldName == MatchConstantName(issue.description)
        newName == ReplaceBoundaries(ToUpperCase(oldName))
    IN  IF oldName # <<>>
        THEN [p \in DOMAIN source |-> IF source[p] = oldName THEN newName ELSE source[p]]
        ELSE source

\* applyAutomaticFixes(sourceCode): the forEach over the issues from the k-th on.
RECURSIVE applyAutomaticFixes(_, _, _)
applyAutomaticFixes(issues, k, fixedCode) ==
    IF k > Len(issues) THEN fixedCode
    ELSE applyAutomaticFixes(issues, k + 1,
             IF Includes(issues[k].description, NeedleConstant)
             THEN applyConstantNamingFix(fixedCode, issues[k])
             ELSE fixedCode)

\* The names and descriptions given to the provider.
NameMaxRetries == <<109, 97, 120, 82, 101, 116, 114, 105, 101, 115>>

NameUpper == <<77, 65, 88, 95, 82, 69, 84, 82, 73, 69, 83>>

NameLeft == <<109, 97, 120, 82, 101, 116, 114, 105, 101, 115, 76, 101, 102, 116>>

NameId == <<105, 100>>

ConstantIssue(name, line) ==
    [fileName |-> "", lineNumber |-> line,
     description |-> ConstantQuote \o name \o <<39>>, suggestedFix |-> <<>>]

ProviderIssueLists ==
    { <<ConstantIssue(NameMaxRetries, 1)>>,
      <<ConstantIssue(NameUpper, 1)>>,
      <<ConstantIssue(NameId, 2), ConstantIssue(NameMaxRetries, 1)>>,
      <<[fileName |-> "", lineNumber |-> 1, description |-> NeedleConstant,
         suggestedFix |-> <<>>]>>,
      <<[fileName |-> "", lineNumber |-> 3, description |-> NeedleNesting,
         suggestedFix |-> <<>>],
        ConstantIssue(NameLeft, 2)>>,
      <<IssueHardcoded, IssueSql, IssueLogging>>,
      <<[fileName |-> "", lineNumber |-> 1, description |-> NeedleSqlInjection,
         suggestedFix |-> <<>>],
        [fileName |-> "", lineNumber |-> 1, description |-> NeedleXss,
         suggestedFix |-> <<>>]>> }

\* 'int maxRetries = 3; maxRetries++; maxRetriesLeft--; id = MAX_RETRIES;'
SourceOfConstants ==
    << <<105, 110, 116>>,
       <<32>>,
       <<109, 97, 120, 82, 101, 116, 114, 105, 101, 115>>,
       <<32, 61, 32>>,
       <<51>>,
       <<59, 32>>,
       <<109, 97, 120, 82, 101, 116, 114, 105, 101, 115>>,
       <<43, 43, 59, 32>>,
       <<109, 97, 120, 82, 101, 116, 114, 105, 101, 115, 76, 101, 102, 116>>,
       <<45, 45, 59, 32>>,
       <<105, 100>>,
       <<32, 61, 32>>,
       <<77, 65, 88, 95, 82, 69, 84, 82, 73, 69, 83>>,
       <<59>> >>

MaxProviderCalls == 3

InitProvider ==
    /\ InitHandler
    /\ sourceCode = <<>>
    /\ checker = NewChecker
    /\ analyzer = NewAnalyzer(FALSE, NoBackend)
    /\ ruleFile = NoRuleFile
    /\ engine = NewEngine
    /\ provider = NewProvider
    /\ ext = NewExt
    /\ runs = NoRuns

\* setIssues(issues)
SetIssues ==
    /\ Len(provider.calls) < MaxProviderCalls
    /\ \E issues \in ProviderIssueLists :
          provider' = [issues |-> issues,
                       calls |-> Append(provider.calls,
                                        [op |-> "setIssues", issues |-> issues,
                                         source |-> <<>>, result |-> <<>>])]
    /\ UNCHANGED <<handlerVars, detectorVars, ruleVars, ext, runs>>

\* getAllCodeActions()
GetAllCodeActions ==
    /\ Len(provider.calls) < MaxProviderCalls
    /\ provider' = [provider EXCEPT
                      !.calls = Append(@, [op |-> "getAllCodeActions",
                                           issues |-> provider.issues,
                                           source |-> <<>>,
                                           result |-> getAllCodeActions(provider.issues)])]
    /\ UNCHANGED <<handlerVars, detectorVars, ruleVars, ext, runs>>

\* applyAutomaticFixes(sourceCode)
ApplyAutomaticFixes ==
    /\ Len(provider.calls) < MaxProviderCalls
    /\ provider' = [provider EXCEPT
                      !.calls = Append(@, [op |-> "applyAutomaticFixes",
                                           issues |-> provider.issues,
                                           source |-> SourceOfConstants,
                                           result |-> applyAutomaticFixes(
                                                          provider.issues, 1,
                                                          SourceOfConstants)])]
    /\ UNCHANGED <<handlerVars, detectorVars, ruleVars, ext, runs>>

\* clear()
ClearIssues ==
    /\ Len(provider.calls) < MaxProviderCalls
    /\ provider' = [issues |-> <<>>,
                    calls |-> Append(provider.calls,
                                     [op |-> "clear", issues |-> <<>>,
                                      source |-> <<>>, result |-> <<>>])]
    /\ UNCHANGED <<handlerVars, detectorVars, ruleVars, ext, runs>>

NextProvider == SetIssues \/ GetAllCodeActions \/ ApplyAutomaticFixes \/ ClearIssues

SpecProvider == InitProvider /\ [][NextProvider]_vars

\* The name in UPPER_CASE_WITH_UNDERSCORES: an underscore at every boundary between
\* a lower-case letter and an upper-case letter, all letters in upper case.
UpperSnake(name) ==
    LET cuts == {i \in 1..(Len(name) - 1) : IsLower(name[i]) /\ IsUpper(name[i + 1])}
        before(i) == Cardinality({x \in cuts : x < i})
        n == Len(name) + Cardinality(cuts)
    IN  [p \in 1..n |->
            IF \E i \in cuts : p = i + before(i) + 1 THEN 95
            ELSE LET i == CHOOSE x \in 1..Len(name) : x + before(x) = p
                 IN  IF IsLower(name[i]) THEN name[i] - 32 ELSE name[i]]

\* C30: the fix of an issue that names a constant renames it to the name in
\* UPPER_CASE_WITH_UNDERSCORES, in the rename text of its code action and at every
\* whole-word occurrence in the source applyAutomaticFixes returns.
C30_RenamedToUpperSnake ==
    \A c \in 1..Len(provider.calls) :
        LET call == provider.calls[c]
        IN  \A k \in 1..Len(call.issues) :
                LET name == MatchConstantName(call.issues[k].description)
                IN  name # <<>> =>
                       /\ call.op = "getAllCodeActions" =>
                             /\ call.result[k].from = name
                             /\ call.result[k].to = UpperSnake(name)
                       /\ call.op = "applyAutomaticFixes" =>
                             \A p \in 1..Len(call.source) :
                                 call.result[p] = IF call.source[p] = name
                                                  THEN UpperSnake(name)
                                                  ELSE call.source[p]

\* ------------------------------------------------------------ the extension
\* The Java files of the workspace.
Files == {"A.java", "B.java"}

\* The file system operations the watcher reports.
MaxFileOps == 3

\* The issues the scanner finds in a file.
FileIssues(f) == IF f = "A.java" THEN <<IssueHardcoded, IssueLogging>> ELSE <<IssueSql>>

InitWatch ==
    /\ InitHandler
    /\ sourceCode = <<>>
    /\ checker = NewChecker
    /\ analyzer = NewAnalyzer(FALSE, NoBackend)
    /\ ruleFile = NoRuleFile
    /\ engine = NewEngine
    /\ provider = NewProvider
    /\ runs = NoRuns
    /\ \E exists \in {{}, {"A.java"}, Files} :
          ext = [NewExt EXCEPT !.exists = exists]

Event(kind, f) == [kind |-> kind, file |-> f, handled |-> FALSE]

\* The first event that has not been handled, or 0.
NextEvent ==
    LET waiting == {i \in 1..Len(ext.events) : ~ext.events[i].handled}
    IN  IF waiting = {} THEN 0 ELSE CHOOSE i \in waiting : \A j \in waiting : i <= j

\* A Java file is created, changed or deleted on disk; the watcher queues the event.
CreateFile(f) ==
    /\ Len(ext.events) < MaxFileOps
    /\ f \notin ext.exists
    /\ ext' = [ext EXCEPT !.exists = @ \cup {f},
                          !.events = Append(@, Event("create", f))]
    /\ UNCHANGED <<handlerVars, detectorVars, ruleVars, provider, runs>>

ChangeFile(f) ==
    /\ Len(ext.events) < MaxFileOps
    /\ f \in ext.exists
    /\ ext' = [ext EXCEPT !.events = Append(@, Event("change", f))]
    /\ UNCHANGED <<handlerVars, detectorVars, ruleVars, provider, runs>>

DeleteFile(f) ==
    /\ Len(ext.events) < MaxFileOps
    /\ f \in ext.exists
    /\ ext' = [ext EXCEPT !.exists = @ \ {f},
                          !.events = Append(@, Event("delete", f))]
    /\ UNCHANGED <<handlerVars, detectorVars, ruleVars, provider, runs>>

\* analyzeFile(filePath) up to its await: it returns when the file is not there, and
\* is suspended in scanner.analyze otherwise.
AnalyzeFileStart(e) ==
    ext' = [ext EXCEPT
              !.events[e].handled = TRUE,
              !.analyzing = IF ext.events[e].file \in ext.exists
                            THEN Append(@, ext.events[e].file) ELSE @]

\* The handlers of onDidChange and onDidCreate.
OnDidChange ==
    /\ NextEvent # 0
    /\ ext.events[NextEvent].kind = "change"
    /\ AnalyzeFileStart(NextEvent)
    /\ UNCHANGED <<handlerVars, detectorVars, ruleVars, provider, runs>>

OnDidCreate ==
    /\ NextEvent # 0
    /\ ext.events[NextEvent].kind = "create"
    /\ AnalyzeFileStart(NextEvent)
    /\ UNCHANGED <<handlerVars, detectorVars, ruleVars, provider, runs>>

\* The handler of onDidDelete.
OnDidDelete ==
    /\ NextEvent # 0
    /\ ext.events[NextEvent].kind = "delete"
    /\ LET f == ext.events[NextEvent].file
       IN  ext' = [ext EXCEPT !.events[NextEvent].handled = TRUE,
                              !.analysisResults = @ \ {f},
                              !.panel = @ \ {f},
                              !.diagnostics = @ \ {f}]
    /\ UNCHANGED <<handlerVars, detectorVars, ruleVars, provider, runs>>

RemoveAt(s, i) == SubSeq(s, 1, i - 1) \o SubSeq(s, i + 1, Len(s))

\* scanner.analyze resolves: analyzeFile goes on after its await and stores the
\* result.
AnalyzeFileResolved(i) ==
    /\ i \in 1..Len(ext.analyzing)
    /\ LET f == ext.analyzing[i]
       IN  /\ ext' = [ext EXCEPT !.analyzing = RemoveAt(@, i),
                                 !.analysisResults = @ \cup {f},
                                 !.panel = @ \cup {f},
                                 !.diagnostics = @ \cup {f}]
           /\ provider' = [provider EXCEPT !.issues = FileIssues(f)]
    /\ UNCHANGED <<handlerVars, detectorVars, ruleVars, runs>>

\* scanner.analyze rejects: the catch of analyzeFile shows the error.
AnalyzeFileRejected(i) ==
    /\ i \in 1..Len(ext.analyzing)
    /\ ext' = [ext EXCEPT !.analyzing = RemoveAt(@, i)]
    /\ UNCHANGED <<handlerVars, detectorVars, ruleVars, provider, runs>>

NextWatch ==
    \/ \E f \in Files : CreateFile(f)
    \/ \E f \in Files : ChangeFile(f)
    \/ \E f \in Files : DeleteFile(f)
    \/ OnDidChange
    \/ OnDidCreate
    \/ OnDidDelete
    \/ \E i \in 1..MaxFileOps : AnalyzeFileResolved(i)
    \/ \E i \in 1..MaxFileOps : AnalyzeFileRejected(i)

SpecWatch == InitWatch /\ [][NextWatch]_vars

\* The delete event of f has been handled and f has not come back: f is not on
\* disk and no delete event of f waits.
DeleteHandled(f) ==
    /\ f \notin ext.exists
    /\ \E e \in 1..Len(ext.events) :
          ext.events[e].kind = "delete" /\ ext.events[e].file = f
    /\ \A e \in 1..Len(ext.events) :
          ext.events[e].file = f => ext.events[e].handled

\* C24: when the delete event of a file has been handled, no analysis result and
\* no diagnostics of the file are stored.
C24_NothingStoredAfterDelete ==
    \A f \in Files :
        DeleteHandled(f) => f \notin ext.analysisResults /\ f \notin ext.diagnostics

\* ------------------------------------- analyses that share the analyzer
\* The analyses of documents that are under way at once.
MaxRuns == 2

\* The for loop of analyzeLoggingStatements from line n up to its next await: the
\* first line from n on that the logging patterns find, or Len(code) + 1, and the
\* lastIndex of the patterns then.
RECURSIVE LoopToAwait(_, _, _)
LoopToAwait(code, n, indexes) ==
    IF n > Len(code) THEN [line |-> n, indexes |-> indexes]
    ELSE LET hasLogging == SomeTest("analyzer", 1, LoggingPatternCount, code[n], indexes)
         IN  IF hasLogging.result THEN [line |-> n, indexes |-> hasLogging.indexes]
             ELSE LoopToAwait(code, n + 1, hasLogging.indexes)

\* The detectors are constructed, the analyzer with or without its model; no
\* analysis has begun.
InitRuns ==
    /\ InitHandler
    /\ sourceCode = <<>>
    /\ checker = NewChecker
    /\ ruleFile = NoRuleFile
    /\ engine = NewEngine
    /\ provider = NewProvider
    /\ ext = NewExt
    /\ runs = NoRuns
    /\ \E initialized \in BOOLEAN, backend \in Backends :
          /\ ~initialized => backend = NoBackend
          /\ analyzer = NewAnalyzer(initialized, backend)

\* analyzeLoggingStatements(code) is called for a document while the analyses of
\* other documents are suspended.  Without the model it returns the result of
\* fallbackKeywordAnalysis at once; with the model it runs up to its first await.
\* start is history: the lastIndex of the patterns at the call.
StartAnalysis(code) ==
    /\ Len(runs) < MaxRuns
    /\ \A r \in 1..Len(runs) : runs[r].code # code
    /\ IF ~(analyzer.isInitialized /\ analyzer.embeddingPipeline)
       THEN LET r == fallbackKeywordAnalysis(code, 1, analyzer.lastIndex)
            IN  /\ analyzer' = [analyzer EXCEPT !.lastIndex = r.indexes]
                /\ runs' = Append(runs, [code |-> code, line |-> Len(code) + 1,
                                         pc |-> "done", issues |-> r.issues,
                                         start |-> analyzer.lastIndex])
       ELSE LET l == LoopToAwait(code, 1, analyzer.lastIndex)
            IN  /\ analyzer' = [analyzer EXCEPT !.lastIndex = l.indexes]
                /\ runs' = Append(runs, [code |-> code, line |-> l.line,
                                         pc |-> IF l.line > Len(code) THEN "done"
                                                ELSE "await",
                                         issues |-> <<>>,
                                         start |-> analyzer.lastIndex])
    /\ UNCHANGED <<handlerVars, ruleVars, sourceCode, checker, provider, ext>>

\* `await this.analyzeLoggingLine(line, lineNumber)` resolves in the analysis r: its
\* Issues are pushed and the loop goes on to its next await or to its end.
ResumeAnalysis(r) ==
    /\ r \in 1..Len(runs)
    /\ runs[r].pc = "await"
    /\ LET run == runs[r]
           l == LoopToAwait(run.code, run.line + 1, analyzer.lastIndex)
       IN  /\ analyzer' = [analyzer EXCEPT !.lastIndex = l.indexes]
           /\ runs' = [runs EXCEPT ![r] =
                         [run EXCEPT
                            !.issues = @ \o analyzeLoggingLine(analyzer.backend,
                                                               run.code[run.line],
                                                               run.line, 1),
                            !.line = l.line,
                            !.pc = IF l.line > Len(run.code) THEN "done" ELSE "await"]]
    /\ UNCHANGED <<handlerVars, ruleVars, sourceCode, checker, provider, ext>>

NextRuns ==
    \/ \E code \in Texts : StartAnalysis(code)
    \/ \E r \in 1..MaxRuns : ResumeAnalysis(r)

SpecRuns == InitRuns /\ [][NextRuns]_vars

\* C22: an analysis that has returned returns the Issues it returns when no other
\* analysis runs between its call and its return (the patterns being as it found
\* them at its call).
C22_InterleavedAsAlone ==
    \A r \in 1..Len(runs) :
        runs[r].pc = "done" =>
            runs[r].issues =
                analyzeLoggingStatements(analyzer.isInitialized /\ analyzer.embeddingPipeline,
                                         analyzer.backend, runs[r].code, 1,
                                         runs[r].start).issues

====
